---------------------------- MODULE Spec2Model ----------------------------
(***************************************************************************)
(* A model of npmrc-config-rs: the three-layer .npmrc configuration        *)
(* (global < user < project), the merged lookup `get`, nerf-darting of     *)
(* registry URLs and the credential resolver `credentials_for`.            *)
(*                                                                         *)
(* Text (Rust &str / String / PathBuf) is a sequence of one-character      *)
(* strings.  Text produced by String::from_utf8 is a sequence of Unicode   *)
(* scalar values (naturals): it is only ever split and compared with       *)
(* itself.  Option<T> is a sequence of length 0 (None) or 1 (Some).        *)
(* Result<T, E> is a record with an `ok` flag.                             *)
(***************************************************************************)
EXTENDS Integers, Sequences, FiniteSets, TLC

VARIABLES
    global_config,   \* NpmrcConfig.global_config  : Option<ConfigData>
    user_config,     \* NpmrcConfig.user_config    : Option<ConfigData>
    project_config,  \* NpmrcConfig.project_config : Option<ConfigData>
    pc,              \* position of load_with_options: the layer being loaded, or "done"
    home,            \* what dirs::home_dir() returns (process environment)
    url,             \* the Url handed to nerf_dart (nerf-dart specification)
    nerfed,          \* the result of nerf_dart(url), once computed
    debug_in,        \* the Credentials value handed to the Debug formatter
    debug_out,       \* what format!("{:?}", creds) wrote, once computed
    env,             \* the process environment: what std::env::var(name) returns
    content,         \* the text handed to parse_npmrc, or to expand_env_vars
    parsed,          \* what the call on content returned, once computed
    files,           \* the config files on the machine: path -> state of the file
    node_prefix,     \* what find_global_prefix() returns (where `node` is installed)
    call,            \* the load entry point called, with its arguments
    error,           \* the Error the load returned, if it failed
    answers,         \* what the queries answered when first asked after the load
    current_dir,     \* what std::env::current_dir() returns (process environment)
    tree,            \* the directories on the machine: directory -> what it holds
    cwd,             \* the directory handed to find_local_prefix
    local_prefix     \* what find_local_prefix(cwd) returned, once it has

\* the variables of the Debug formatting of a Credentials value
debug_vars == <<debug_in, debug_out>>

\* the variables of a call of parse_npmrc
parse_vars == <<content, parsed>>

\* the variables of a load from the file system, and of the queries after it
load_vars == <<files, node_prefix, call, error, answers>>

\* the variables of a call of find_local_prefix
prefix_vars == <<current_dir, tree, cwd, local_prefix>>

\* the variables the line-by-line load and nerf_dart leave alone
others == <<debug_vars, env, parse_vars, load_vars, prefix_vars>>

vars == <<global_config, user_config, project_config, pc, home, url, nerfed, others>>

-----------------------------------------------------------------------------
(* Option and Result *)

None == <<>>

Some(x) == <<x>>

Ok(x) == [ok |-> TRUE, val |-> x]

Err(e) == [ok |-> FALSE, err |-> e]

-----------------------------------------------------------------------------
(* Text helpers: the str methods the code calls *)

starts_with(s, p) == Len(s) >= Len(p) /\ SubSeq(s, 1, Len(p)) = p

ends_with(s, p) == Len(s) >= Len(p) /\ SubSeq(s, Len(s) - Len(p) + 1, Len(s)) = p

\* str::strip_prefix: the rest after the prefix, or None
strip_prefix(s, p) ==
    IF starts_with(s, p) THEN Some(SubSeq(s, Len(p) + 1, Len(s))) ELSE None

\* str::rfind(c): the (1-based) index of the last occurrence of c, or None
rfind(s, c) ==
    IF \E i \in 1..Len(s) : s[i] = c
    THEN Some(CHOOSE i \in 1..Len(s) : s[i] = c /\ \A j \in (i+1)..Len(s) : s[j] # c)
    ELSE None

\* str::find(c): the (1-based) index of the first occurrence of c, or None
find(s, c) ==
    IF \E i \in 1..Len(s) : s[i] = c
    THEN Some(CHOOSE i \in 1..Len(s) : s[i] = c /\ \A j \in 1..(i-1) : s[j] # c)
    ELSE None

Digit(d) == <<"0", "1", "2", "3", "4", "5", "6", "7", "8", "9">>[d + 1]

RECURSIVE to_string(_)
\* the decimal text of a natural, as format!("{}", p) writes it
to_string(n) == IF n < 10 THEN <<Digit(n)>> ELSE to_string(n \div 10) \o <<Digit(n % 10)>>

-----------------------------------------------------------------------------
(* auth.rs: base64 (STANDARD engine: standard alphabet, canonical padding   *)
(* required) and UTF-8 decoding                                             *)

BASE64_ALPHABET ==
    << "A","B","C","D","E","F","G","H","I","J","K","L","M","N","O","P",
       "Q","R","S","T","U","V","W","X","Y","Z","a","b","c","d","e","f",
       "g","h","i","j","k","l","m","n","o","p","q","r","s","t","u","v",
       "w","x","y","z","0","1","2","3","4","5","6","7","8","9","+","/" >>

\* the 6-bit value of each symbol of the alphabet
BASE64_VALUE ==
    [c \in { BASE64_ALPHABET[i] : i \in 1..64 } |->
        (CHOOSE i \in 1..64 : BASE64_ALPHABET[i] = c) - 1]

IsBase64Symbol(c) == c \in DOMAIN BASE64_VALUE

Base64Value(c) == BASE64_VALUE[c]

\* the bytes of one quantum of four symbols; the last quantum may be padded.
\* Trailing bits that are not zero are rejected (the engine's default).
DecodeQuantum(q, last) ==
    IF \A j \in 1..4 : IsBase64Symbol(q[j])
    THEN LET v == Base64Value(q[1]) * 262144 + Base64Value(q[2]) * 4096
                  + Base64Value(q[3]) * 64 + Base64Value(q[4])
         IN  Ok(<< v \div 65536, (v \div 256) % 256, v % 256 >>)
    ELSE IF last /\ q[4] = "=" /\ \A j \in 1..3 : IsBase64Symbol(q[j])
    THEN IF Base64Value(q[3]) % 4 # 0 THEN Err("InvalidBase64")
         ELSE LET v == Base64Value(q[1]) * 4096 + Base64Value(q[2]) * 64
                       + Base64Value(q[3])
              IN  Ok(<< v \div 1024, (v \div 4) % 256 >>)
    ELSE IF last /\ q[4] = "=" /\ q[3] = "=" /\ \A j \in 1..2 : IsBase64Symbol(q[j])
    THEN IF Base64Value(q[2]) % 16 # 0 THEN Err("InvalidBase64")
         ELSE Ok(<< (Base64Value(q[1]) * 64 + Base64Value(q[2])) \div 16 >>)
    ELSE Err("InvalidBase64")

RECURSIVE BASE64_decode(_)
\* BASE64.decode(encoded): Ok(bytes) or Err(InvalidBase64)
BASE64_decode(s) ==
    IF Len(s) = 0 THEN Ok(<<>>)
    ELSE IF Len(s) < 4 THEN Err("InvalidBase64")
    ELSE LET head == DecodeQuantum(SubSeq(s, 1, 4), Len(s) = 4)
             rest == BASE64_decode(SubSeq(s, 5, Len(s)))
         IN  IF head.ok /\ rest.ok THEN Ok(head.val \o rest.val)
             ELSE Err("InvalidBase64")

IsContinuation(b) == b >= 128 /\ b <= 191

RECURSIVE from_utf8(_)
\* String::from_utf8(bytes): Ok(the scalar values encoded) or Err(InvalidUtf8)
from_utf8(b) ==
    IF Len(b) = 0 THEN Ok(<<>>)
    ELSE LET b1 == b[1]
             n  == IF b1 < 128 THEN 1
                   ELSE IF b1 >= 194 /\ b1 <= 223 THEN 2
                   ELSE IF b1 >= 224 /\ b1 <= 239 THEN 3
                   ELSE IF b1 >= 240 /\ b1 <= 244 THEN 4
                   ELSE 0
             wellFormed ==
                 /\ n > 0
                 /\ Len(b) >= n
                 /\ \A j \in 2..n : IsContinuation(b[j])
                 /\ (b1 = 224 => b[2] >= 160)
                 /\ (b1 = 237 => b[2] <= 159)
                 /\ (b1 = 240 => b[2] >= 144)
                 /\ (b1 = 244 => b[2] <= 143)
         IN  IF ~wellFormed THEN Err("InvalidUtf8")
             ELSE LET scalar ==
                          IF n = 1 THEN b1
                          ELSE IF n = 2 THEN (b1 - 192) * 64 + (b[2] - 128)
                          ELSE IF n = 3 THEN (b1 - 224) * 4096 + (b[2] - 128) * 64
                                             + (b[3] - 128)
                          ELSE (b1 - 240) * 262144 + (b[2] - 128) * 4096
                               + (b[3] - 128) * 64 + (b[4] - 128)
                      rest == from_utf8(SubSeq(b, n + 1, Len(b)))
                  IN  IF rest.ok THEN Ok(<<scalar>> \o rest.val) ELSE rest

\* decode_password(encoded): BASE64.decode(encoded)? then String::from_utf8(..)?
decode_password(encoded) ==
    LET decoded == BASE64_decode(encoded)
    IN  IF ~decoded.ok THEN decoded ELSE from_utf8(decoded.val)

\* the scalar value of ':'
COLON == 58

\* a decoder that splits on the last ':'
parse_legacy_auth_last_colon(auth) ==
    LET bytes == BASE64_decode(auth)
        decoded == IF bytes.ok THEN from_utf8(bytes.val) ELSE bytes
    IN  IF ~decoded.ok THEN decoded
        ELSE LET d == decoded.val
                 at == rfind(d, COLON)
             IN  IF at = None
                 THEN Ok([username |-> d, password |-> <<>>])
                 ELSE Ok([username |-> SubSeq(d, 1, at[1] - 1),
                          password |-> SubSeq(d, at[1] + 1, Len(d))])

\* parse_legacy_auth(auth): decode, then splitn(2, ':'); a missing part is ""
parse_legacy_auth(auth) ==
    LET bytes == BASE64_decode(auth)
        decoded == IF bytes.ok THEN from_utf8(bytes.val) ELSE bytes
    IN  IF ~decoded.ok THEN decoded
        ELSE LET d == decoded.val
                 at == find(d, COLON)
             IN  IF at = None
                 THEN Ok([username |-> d, password |-> <<>>])
                 ELSE Ok([username |-> SubSeq(d, 1, at[1] - 1),
                          password |-> SubSeq(d, at[1] + 1, Len(d))])

-----------------------------------------------------------------------------
(* paths.rs *)

\* PathBuf::join: an absolute `rest` replaces the base
path_join(base, rest) ==
    IF starts_with(rest, <<"/">>) THEN rest
    ELSE IF Len(base) = 0 \/ ends_with(base, <<"/">>) THEN base \o rest
    ELSE base \o <<"/">> \o rest

\* expand_tilde(path): `~/rest` and `~` are expanded against dirs::home_dir(),
\* read from the environment at the time of the call
expand_tilde(path) ==
    LET rest == strip_prefix(path, <<"~", "/">>)
    IN  IF rest # None
        THEN IF home # None THEN path_join(home[1], rest[1]) ELSE path
        ELSE IF path = <<"~">> /\ home # None THEN home[1]
        ELSE path

global_config_path(prefix) == path_join(path_join(prefix, <<"e","t","c">>), <<"n","p","m","r","c">>)

project_config_path(prefix) == path_join(prefix, <<".","n","p","m","r","c">>)

-----------------------------------------------------------------------------
(* The Url handed to nerf_dart and credentials_for (url crate).  A Url is   *)
(* the record of its components as written; `port` is the explicit port.   *)

default_port(scheme) ==
    IF scheme \in {"https", "wss"} THEN Some(443)
    ELSE IF scheme \in {"http", "ws"} THEN Some(80)
    ELSE IF scheme = "ftp" THEN Some(21)
    ELSE None

\* Url::host_str()
host_str(u) == u.host

\* a port() that keeps the port as written, default or not
port_as_written(u) == u.port

\* Url::port(): None when no port is written or it is the scheme's default
port(u) == IF u.port # None /\ u.port = default_port(u.scheme) THEN None ELSE u.port

\* Url::path()
path(u) == u.path

-----------------------------------------------------------------------------
(* auth.rs: nerf_dart *)

\* nerf_dart cutting the path at its first '/' instead of its last
nerf_dart_first_slash(u) ==
    LET host == IF host_str(u) # None THEN host_str(u)[1] ELSE <<>>
        port_text == IF port(u) # None THEN <<":">> \o to_string(port(u)[1]) ELSE <<>>
        p == path(u)
        normalized_path ==
            IF ends_with(p, <<"/">>) THEN p
            ELSE LET idx == find(p, "/")
                 IN  IF idx # None THEN SubSeq(p, 1, idx[1]) ELSE <<"/">>
    IN  <<"/", "/">> \o host \o port_text \o normalized_path

\* nerf_dart keeping the whole path
nerf_dart_whole_path(u) ==
    LET host == IF host_str(u) # None THEN host_str(u)[1] ELSE <<>>
        port_text == IF port(u) # None THEN <<":">> \o to_string(port(u)[1]) ELSE <<>>
    IN  <<"/", "/">> \o host \o port_text \o path(u)

nerf_dart(u) ==
    LET host == IF host_str(u) # None THEN host_str(u)[1] ELSE <<>>
        port_text == IF port(u) # None THEN <<":">> \o to_string(port(u)[1]) ELSE <<>>
        p == path(u)
        normalized_path ==
            IF ends_with(p, <<"/">>) THEN p
            ELSE LET idx == rfind(p, "/")
                 IN  IF idx # None THEN SubSeq(p, 1, idx[1]) ELSE <<"/">>
    IN  <<"/", "/">> \o host \o port_text \o normalized_path

-----------------------------------------------------------------------------
(* config.rs: the three layers and the merged lookup *)

\* ConfigData::get
ConfigData_get(c, key) == IF key \in DOMAIN c.data THEN Some(c.data[key]) ELSE None

\* Option::and_then(|c| c.get(key)) on a layer
layer_get(layer, key) == IF layer # None THEN ConfigData_get(layer[1], key) ELSE None

\* a lookup that lets the lowest layer win
get_global_first(self, key) ==
    IF layer_get(self.global_config, key) # None THEN layer_get(self.global_config, key)
    ELSE IF layer_get(self.user_config, key) # None THEN layer_get(self.user_config, key)
    ELSE layer_get(self.project_config, key)

\* NpmrcConfig::get: project, or else user, or else global
get(self, key) ==
    IF layer_get(self.project_config, key) # None THEN layer_get(self.project_config, key)
    ELSE IF layer_get(self.user_config, key) # None THEN layer_get(self.user_config, key)
    ELSE layer_get(self.global_config, key)

\* the NpmrcConfig value the three layers make up
config ==
    [global_config |-> global_config, user_config |-> user_config,
     project_config |-> project_config]

has_project_config == project_config # None

has_user_config == user_config # None

has_global_config == global_config # None

-----------------------------------------------------------------------------
(* config.rs: credentials *)

AUTH_TOKEN_SUFFIX == <<":", "_", "a", "u", "t", "h", "T", "o", "k", "e", "n">>

USERNAME_SUFFIX == <<":", "u", "s", "e", "r", "n", "a", "m", "e">>

PASSWORD_SUFFIX == <<":", "_", "p", "a", "s", "s", "w", "o", "r", "d">>

AUTH_SUFFIX == <<":", "_", "a", "u", "t", "h">>

CERTFILE_SUFFIX == <<":", "c", "e", "r", "t", "f", "i", "l", "e">>

KEYFILE_SUFFIX == <<":", "k", "e", "y", "f", "i", "l", "e">>

ClientCert(certfile, keyfile) == [certfile |-> certfile, keyfile |-> keyfile]

Token(token, cert) == [variant |-> "Token", token |-> token, cert |-> cert]

BasicAuth(username, password, cert) ==
    [variant |-> "BasicAuth", username |-> username, password |-> password, cert |-> cert]

LegacyAuth(auth, username, password, cert) ==
    [variant |-> "LegacyAuth", auth |-> auth, username |-> username,
     password |-> password, cert |-> cert]

ClientCertOnly(cert) == [variant |-> "ClientCertOnly", cert |-> Some(cert)]

\* a certificate built from the certfile alone
get_client_cert_partial(self, nerf) ==
    LET certfile == get(self, nerf \o CERTFILE_SUFFIX)
        keyfile == get(self, nerf \o KEYFILE_SUFFIX)
    IN  IF certfile # None
        THEN Some(ClientCert(expand_tilde(certfile[1]),
                             IF keyfile # None THEN expand_tilde(keyfile[1]) ELSE <<>>))
        ELSE None

\* NpmrcConfig::get_client_cert
get_client_cert(self, nerf) ==
    LET certfile == get(self, nerf \o CERTFILE_SUFFIX)
        keyfile == get(self, nerf \o KEYFILE_SUFFIX)
    IN  IF certfile # None /\ keyfile # None
        THEN Some(ClientCert(expand_tilde(certfile[1]), expand_tilde(keyfile[1])))
        ELSE None

\* credentials_for taking an empty _authToken for a missing one
credentials_for_nonempty_token(self, registry) ==
    LET nerf == nerf_dart(registry)
        cert == get_client_cert(self, nerf)
        token == get(self, nerf \o AUTH_TOKEN_SUFFIX)
        username == get(self, nerf \o USERNAME_SUFFIX)
        encoded_password == get(self, nerf \o PASSWORD_SUFFIX)
        auth == get(self, nerf \o AUTH_SUFFIX)
    IN  IF token # None /\ token[1] # <<>> THEN Some(Token(token[1], cert))
        ELSE IF /\ username # None
                /\ encoded_password # None
                /\ decode_password(encoded_password[1]).ok
        THEN Some(BasicAuth(username[1], decode_password(encoded_password[1]).val, cert))
        ELSE IF auth # None /\ parse_legacy_auth(auth[1]).ok
        THEN Some(LegacyAuth(auth[1], parse_legacy_auth(auth[1]).val.username,
                             parse_legacy_auth(auth[1]).val.password, cert))
        ELSE IF cert # None THEN Some(ClientCertOnly(cert[1]))
        ELSE None

\* credentials_for looking its keys up under the host alone
credentials_for_host_scope(self, registry) ==
    LET nerf == <<"/", "/">> \o (IF host_str(registry) # None THEN host_str(registry)[1] ELSE <<>>) \o <<"/">>
        cert == get_client_cert(self, nerf)
        token == get(self, nerf \o AUTH_TOKEN_SUFFIX)
        username == get(self, nerf \o USERNAME_SUFFIX)
        encoded_password == get(self, nerf \o PASSWORD_SUFFIX)
        auth == get(self, nerf \o AUTH_SUFFIX)
    IN  IF token # None THEN Some(Token(token[1], cert))
        ELSE IF /\ username # None
                /\ encoded_password # None
                /\ decode_password(encoded_password[1]).ok
        THEN Some(BasicAuth(username[1], decode_password(encoded_password[1]).val, cert))
        ELSE IF auth # None /\ parse_legacy_auth(auth[1]).ok
        THEN Some(LegacyAuth(auth[1], parse_legacy_auth(auth[1]).val.username,
                             parse_legacy_auth(auth[1]).val.password, cert))
        ELSE IF cert # None THEN Some(ClientCertOnly(cert[1]))
        ELSE None

\* credentials_for building BasicAuth from the username alone
credentials_for_username_only(self, registry) ==
    LET nerf == nerf_dart(registry)
        cert == get_client_cert(self, nerf)
        token == get(self, nerf \o AUTH_TOKEN_SUFFIX)
        username == get(self, nerf \o USERNAME_SUFFIX)
        encoded_password == get(self, nerf \o PASSWORD_SUFFIX)
        auth == get(self, nerf \o AUTH_SUFFIX)
    IN  IF token # None THEN Some(Token(token[1], cert))
        ELSE IF username # None
        THEN Some(BasicAuth(username[1],
                            IF encoded_password # None /\ decode_password(encoded_password[1]).ok
                            THEN decode_password(encoded_password[1]).val ELSE <<>>,
                            cert))
        ELSE IF auth # None /\ parse_legacy_auth(auth[1]).ok
        THEN Some(LegacyAuth(auth[1], parse_legacy_auth(auth[1]).val.username,
                             parse_legacy_auth(auth[1]).val.password, cert))
        ELSE IF cert # None THEN Some(ClientCertOnly(cert[1]))
        ELSE None

\* credentials_for attaching the certificate to a Token only
credentials_for_cert_dropped(self, registry) ==
    LET nerf == nerf_dart(registry)
        cert == get_client_cert(self, nerf)
        token == get(self, nerf \o AUTH_TOKEN_SUFFIX)
        username == get(self, nerf \o USERNAME_SUFFIX)
        encoded_password == get(self, nerf \o PASSWORD_SUFFIX)
        auth == get(self, nerf \o AUTH_SUFFIX)
    IN  IF token # None THEN Some(Token(token[1], cert))
        ELSE IF /\ username # None
                /\ encoded_password # None
                /\ decode_password(encoded_password[1]).ok
        THEN Some(BasicAuth(username[1], decode_password(encoded_password[1]).val, None))
        ELSE IF auth # None /\ parse_legacy_auth(auth[1]).ok
        THEN Some(LegacyAuth(auth[1], parse_legacy_auth(auth[1]).val.username,
                             parse_legacy_auth(auth[1]).val.password, None))
        ELSE IF cert # None THEN Some(ClientCertOnly(cert[1]))
        ELSE None

\* credentials_for giving up (the `?` operator) when the _password does not decode
credentials_for_decode_error(self, registry) ==
    LET nerf == nerf_dart(registry)
        cert == get_client_cert(self, nerf)
        token == get(self, nerf \o AUTH_TOKEN_SUFFIX)
        username == get(self, nerf \o USERNAME_SUFFIX)
        encoded_password == get(self, nerf \o PASSWORD_SUFFIX)
        auth == get(self, nerf \o AUTH_SUFFIX)
    IN  IF token # None THEN Some(Token(token[1], cert))
        ELSE IF /\ username # None
                /\ encoded_password # None
                /\ decode_password(encoded_password[1]).ok
        THEN Some(BasicAuth(username[1], decode_password(encoded_password[1]).val, cert))
        ELSE IF /\ username # None
                /\ encoded_password # None
                /\ ~decode_password(encoded_password[1]).ok
        THEN Some([variant |-> decode_password(encoded_password[1]).err])
        ELSE IF auth # None /\ parse_legacy_auth(auth[1]).ok
        THEN Some(LegacyAuth(auth[1], parse_legacy_auth(auth[1]).val.username,
                             parse_legacy_auth(auth[1]).val.password, cert))
        ELSE IF cert # None THEN Some(ClientCertOnly(cert[1]))
        ELSE None

\* credentials_for keeping the _password as written when it does not decode
credentials_for_raw_password(self, registry) ==
    LET nerf == nerf_dart(registry)
        cert == get_client_cert(self, nerf)
        token == get(self, nerf \o AUTH_TOKEN_SUFFIX)
        username == get(self, nerf \o USERNAME_SUFFIX)
        encoded_password == get(self, nerf \o PASSWORD_SUFFIX)
        auth == get(self, nerf \o AUTH_SUFFIX)
    IN  IF token # None THEN Some(Token(token[1], cert))
        ELSE IF /\ username # None
                /\ encoded_password # None
                /\ decode_password(encoded_password[1]).ok
        THEN Some(BasicAuth(username[1], decode_password(encoded_password[1]).val, cert))
        ELSE IF username # None /\ encoded_password # None
        THEN Some(BasicAuth(username[1], encoded_password[1], cert))
        ELSE IF auth # None /\ parse_legacy_auth(auth[1]).ok
        THEN Some(LegacyAuth(auth[1], parse_legacy_auth(auth[1]).val.username,
                             parse_legacy_auth(auth[1]).val.password, cert))
        ELSE IF cert # None THEN Some(ClientCertOnly(cert[1]))
        ELSE None

\* credentials_for that resolves every key in the highest layer that holds
\* any auth key of the registry
credentials_for_one_layer(self, registry) ==
    LET nerf == nerf_dart(registry)
        suffixes == { AUTH_TOKEN_SUFFIX, USERNAME_SUFFIX, PASSWORD_SUFFIX, AUTH_SUFFIX,
                      CERTFILE_SUFFIX, KEYFILE_SUFFIX }
        holds(layer) == \E x \in suffixes : layer_get(layer, nerf \o x) # None
        top == IF holds(self.project_config) THEN self.project_config
               ELSE IF holds(self.user_config) THEN self.user_config
               ELSE self.global_config
        certfile == layer_get(top, nerf \o CERTFILE_SUFFIX)
        keyfile == layer_get(top, nerf \o KEYFILE_SUFFIX)
        cert == IF certfile # None /\ keyfile # None
                THEN Some(ClientCert(expand_tilde(certfile[1]), expand_tilde(keyfile[1])))
                ELSE None
        token == layer_get(top, nerf \o AUTH_TOKEN_SUFFIX)
        username == layer_get(top, nerf \o USERNAME_SUFFIX)
        encoded_password == layer_get(top, nerf \o PASSWORD_SUFFIX)
        auth == layer_get(top, nerf \o AUTH_SUFFIX)
    IN  IF token # None THEN Some(Token(token[1], cert))
        ELSE IF /\ username # None
                /\ encoded_password # None
                /\ decode_password(encoded_password[1]).ok
        THEN Some(BasicAuth(username[1], decode_password(encoded_password[1]).val, cert))
        ELSE IF auth # None /\ parse_legacy_auth(auth[1]).ok
        THEN Some(LegacyAuth(auth[1], parse_legacy_auth(auth[1]).val.username,
                             parse_legacy_auth(auth[1]).val.password, cert))
        ELSE IF cert # None THEN Some(ClientCertOnly(cert[1]))
        ELSE None

\* NpmrcConfig::credentials_for: Option<Credentials>
credentials_for(self, registry) ==
    LET nerf == nerf_dart(registry)
        cert == get_client_cert(self, nerf)
        token == get(self, nerf \o AUTH_TOKEN_SUFFIX)
        username == get(self, nerf \o USERNAME_SUFFIX)
        encoded_password == get(self, nerf \o PASSWORD_SUFFIX)
        auth == get(self, nerf \o AUTH_SUFFIX)
    IN  IF token # None THEN Some(Token(token[1], cert))
        ELSE IF /\ username # None
                /\ encoded_password # None
                /\ decode_password(encoded_password[1]).ok
        THEN Some(BasicAuth(username[1], decode_password(encoded_password[1]).val, cert))
        ELSE IF auth # None /\ parse_legacy_auth(auth[1]).ok
        THEN Some(LegacyAuth(auth[1], parse_legacy_auth(auth[1]).val.username,
                             parse_legacy_auth(auth[1]).val.password, cert))
        ELSE IF cert # None THEN Some(ClientCertOnly(cert[1]))
        ELSE None

\* Credentials::client_cert
client_cert(creds) == creds.cert

-----------------------------------------------------------------------------
(* The scenario: the files the loader may find and the URLs queried *)

\* entries held by the three layers together
MaxEntries == 4

NERF_H == <<"/", "/", "h", "/">>     \* the registry the files configure

\* the `key = value` lines a config file may hold
ConfigLines ==
    { <<NERF_H \o AUTH_TOKEN_SUFFIX, <<>>>>,                   \* empty token
      <<NERF_H \o AUTH_TOKEN_SUFFIX, <<"t">>>>,
      <<NERF_H \o USERNAME_SUFFIX, <<"u">>>>,
      <<NERF_H \o PASSWORD_SUFFIX, <<"c", "A", "=", "=">>>>,   \* base64("p")
      <<NERF_H \o PASSWORD_SUFFIX, <<"c", "A", "=">>>>,        \* not base64
      <<NERF_H \o PASSWORD_SUFFIX, <<"/", "w", "=", "=">>>>,   \* base64(0xFF): not UTF-8
      <<NERF_H \o AUTH_SUFFIX, <<"d", "T", "p", "w">>>>,       \* base64("u:p")
      <<NERF_H \o AUTH_SUFFIX, <<"*">>>>,                      \* not base64
      <<NERF_H \o CERTFILE_SUFFIX, <<"~", "/", "c">>>>,
      <<NERF_H \o KEYFILE_SUFFIX, <<"/", "k">>>> }

ConfigKeys == { l[1] : l \in ConfigLines }

\* what dirs::home_dir() returns while the files are loaded and queried
HOME == Some(<<"/", "r">>)

GLOBAL_PREFIX == <<"/", "g">>      \* LoadOptions.global_prefix

USER_CONFIG == <<"/", "u", "/", ".", "n", "p", "m", "r", "c">>   \* LoadOptions.user_config

LOCAL_PREFIX == <<"/", "w">>       \* find_local_prefix(cwd)

Url(scheme, userinfo, host, explicit_port, p, query, fragment) ==
    [scheme |-> scheme, userinfo |-> userinfo, host |-> host, port |-> explicit_port,
     path |-> p, query |-> query, fragment |-> fragment]

HOST_H == Some(<<"h">>)

HOST_G == Some(<<"g">>)

\* https://h/
URL_ROOT == Url("https", None, HOST_H, None, <<"/">>, None, None)

\* https://u:s@h/p?q#f
URL_DECORATED ==
    Url("https", Some(<<"u", ":", "s">>), HOST_H, None, <<"/", "p">>, Some(<<"q">>), Some(<<"f">>))

\* https://h/a/p
URL_NESTED == Url("https", None, HOST_H, None, <<"/", "a", "/", "p">>, None, None)

\* https://h:8080/
URL_PORT == Url("https", None, HOST_H, Some(8080), <<"/">>, None, None)

\* https://g/
URL_OTHER == Url("https", None, HOST_G, None, <<"/">>, None, None)

QueryUrls == { URL_ROOT, URL_DECORATED, URL_NESTED, URL_PORT, URL_OTHER }

-----------------------------------------------------------------------------
(* config.rs: load_with_options, one layer after the other.  The map a     *)
(* layer's file is parsed into grows by one insert per accepted line.      *)

Layers == <<"global", "user", "project">>

LayerNames == {"global", "user", "project"}

layer_of(l) ==
    IF l = "global" THEN global_config
    ELSE IF l = "user" THEN user_config
    ELSE project_config

next_pc(l) ==
    IF l = "global" THEN "user" ELSE IF l = "user" THEN "project" ELSE "done"

config_path(l) ==
    IF l = "global" THEN global_config_path(GLOBAL_PREFIX)
    ELSE IF l = "user" THEN USER_CONFIG
    ELSE project_config_path(LOCAL_PREFIX)

entries(layer) == IF layer # None THEN Cardinality(DOMAIN layer[1].data) ELSE 0

TotalEntries == entries(global_config) + entries(user_config) + entries(project_config)

EmptyMap == [k \in {} |-> <<>>]

\* HashMap::insert
insert(data, k, v) == [x \in DOMAIN data \cup {k} |-> IF x = k THEN v ELSE data[x]]

set_layer(l, v) ==
    /\ global_config' = IF l = "global" THEN v ELSE global_config
    /\ user_config' = IF l = "user" THEN v ELSE user_config
    /\ project_config' = IF l = "project" THEN v ELSE project_config

\* the layer is skipped, or its path does not exist: ConfigData::load gives None
load_absent(l) ==
    /\ pc = l
    /\ layer_of(l) = None
    /\ pc' = next_pc(l)
    /\ UNCHANGED <<global_config, user_config, project_config, home, url, nerfed, others>>

\* the layer's file exists and is read: parse_npmrc starts from an empty map
load_open(l) ==
    /\ pc = l
    /\ layer_of(l) = None
    /\ set_layer(l, Some([source |-> config_path(l), data |-> EmptyMap]))
    /\ UNCHANGED <<pc, home, url, nerfed, others>>

\* parse_npmrc reads one more `key = value` line of the layer's file
parse_npmrc_line(l, k, v) ==
    /\ pc = l
    /\ layer_of(l) # None
    /\ TotalEntries < MaxEntries \/ k \in DOMAIN layer_of(l)[1].data
    /\ set_layer(l, Some([source |-> layer_of(l)[1].source,
                          data |-> insert(layer_of(l)[1].data, k, v)]))
    /\ UNCHANGED <<pc, home, url, nerfed, others>>

\* the file is exhausted: ConfigData::load gives Some(ConfigData)
load_done(l) ==
    /\ pc = l
    /\ layer_of(l) # None
    /\ pc' = next_pc(l)
    /\ UNCHANGED <<global_config, user_config, project_config, home, url, nerfed, others>>

NoUrl == Url("", None, None, None, <<>>, None, None)

\* no Credentials value is being formatted
debug_idle == debug_in = None /\ debug_out = None

\* the environment in which no variable is set
ENV_EMPTY == [name \in {} |-> <<>>]

\* no text is being parsed
parse_idle == content = <<>> /\ parsed = None

\* no file is known, and no entry point has been called from outside
NO_FILES == [p \in {} |-> <<>>]

NO_CALL == [entry |-> "none"]

load_idle ==
    /\ files = NO_FILES
    /\ node_prefix = None
    /\ call = NO_CALL
    /\ error = None
    /\ answers = None

\* find_local_prefix has not been called
NO_TREE == [d \in {} |-> <<>>]

prefix_idle ==
    /\ current_dir = <<"/">>
    /\ tree = NO_TREE
    /\ cwd = <<>>
    /\ local_prefix = None

\* nothing but the line-by-line load, or nerf_dart, is going on
others_idle == debug_idle /\ env = ENV_EMPTY /\ parse_idle /\ load_idle /\ prefix_idle

Init ==
    /\ global_config = None
    /\ user_config = None
    /\ project_config = None
    /\ pc = "global"
    /\ home = HOME
    /\ url = NoUrl
    /\ nerfed = None
    /\ others_idle

Next ==
    \/ \E l \in LayerNames : load_absent(l)
    \/ \E l \in LayerNames : load_open(l)
    \/ \E l \in LayerNames : \E line \in ConfigLines : parse_npmrc_line(l, line[1], line[2])
    \/ \E l \in LayerNames : load_done(l)

Spec == Init /\ [][Next]_vars

-----------------------------------------------------------------------------
(* nerf_dart on its own: every Url of a bounded shape, then the call *)

\* characters of a Url's path
MaxPathLen == 4

PathChars == {"/", "a", "b"}

Paths == UNION { [1..n -> PathChars] : n \in 0..MaxPathLen }

SpecialSchemes == {"https", "http"}

\* the Urls Url::parse can give: a special scheme has a host and a path that
\* starts with '/'; any other scheme may have no host and any path
Urls ==
    { u \in [scheme : {"https", "http", "npm"},
             userinfo : {None, Some(<<"w">>)},
             host : {None, HOST_H, HOST_G},
             port : {None, Some(80), Some(443), Some(8080)},
             path : Paths,
             query : {None, Some(<<"x", "/", "x">>)},
             fragment : {None, Some(<<"y", "/", "y">>)}] :
        /\ u.scheme \in SpecialSchemes => u.host # None /\ starts_with(u.path, <<"/">>)
        /\ u.host = None => u.port = None /\ u.userinfo = None }

InitNerf ==
    /\ global_config = None
    /\ user_config = None
    /\ project_config = None
    /\ pc = "done"
    /\ home = None
    /\ url \in Urls
    /\ nerfed = None
    /\ others_idle

call_nerf_dart ==
    /\ nerfed = None
    /\ nerfed' = Some(nerf_dart(url))
    /\ UNCHANGED <<global_config, user_config, project_config, pc, home, url, others>>

NextNerf == call_nerf_dart

SpecNerf == InitNerf /\ [][NextNerf]_vars

(* nerf_dart and credentials_for on every Url, against a config that holds *)
(* a token for //h/ and another for //h:443/                               *)

SCHEME_CONFIG ==
    [source |-> project_config_path(LOCAL_PREFIX),
     data |-> [k \in { NERF_H \o AUTH_TOKEN_SUFFIX,
                       <<"/", "/", "h", ":", "4", "4", "3", "/">> \o AUTH_TOKEN_SUFFIX } |->
                  IF k = NERF_H \o AUTH_TOKEN_SUFFIX THEN <<"t">> ELSE <<"s">>]]

InitScheme ==
    /\ global_config = None
    /\ user_config = None
    /\ project_config = Some(SCHEME_CONFIG)
    /\ pc = "done"
    /\ home = None
    /\ url \in Urls
    /\ nerfed = None
    /\ others_idle

NextScheme == call_nerf_dart

SpecScheme == InitScheme /\ [][NextScheme]_vars

-----------------------------------------------------------------------------
(* auth.rs: impl fmt::Debug for Credentials.  The output is a sequence of   *)
(* pieces: each literal the formatter writes is one piece, each character  *)
(* of a formatted text is one piece.                                       *)

\* the characters of the decoded texts (Unicode scalar value -> character)
CHARS == [n \in {34, 58, 92, 112, 113, 117, 118} |->
             IF n = 34 THEN "\"" ELSE IF n = 58 THEN ":" ELSE IF n = 92 THEN "\\"
             ELSE IF n = 112 THEN "p" ELSE IF n = 113 THEN "q"
             ELSE IF n = 117 THEN "u" ELSE "v"]

\* char::escape_debug, for the characters of the model: '"' and '\' get a backslash
escape_debug(c) == IF c = "\"" \/ c = "\\" THEN <<"\\", c>> ELSE <<c>>

RECURSIVE escape_all(_)
escape_all(s) == IF s = <<>> THEN <<>> ELSE escape_debug(s[1]) \o escape_all(Tail(s))

\* <str as Debug>::fmt and <Path as Debug>::fmt: the text in double quotes, escaped
Debug_str(s) == <<"\"">> \o escape_all(s) \o <<"\"">>

\* <String as Debug>::fmt of a decoded text
Debug_String(t) == Debug_str([i \in 1..Len(t) |-> CHARS[t[i]]])

\* the marker written in place of a secret: &"[REDACTED]" formatted with Debug
REDACTED == <<"\"[REDACTED]\"">>

\* #[derive(Debug)] of ClientCert
Debug_ClientCert(cert) ==
    <<"ClientCert", " { ", "certfile", ": ">> \o Debug_str(cert.certfile)
        \o <<", ", "keyfile", ": ">> \o Debug_str(cert.keyfile) \o <<" }">>

\* <Option<ClientCert> as Debug>::fmt
Debug_Option(cert) ==
    IF cert = None THEN <<"None">>
    ELSE <<"Some", "(">> \o Debug_ClientCert(cert[1]) \o <<")">>

\* what #[derive(Debug)] on Credentials would write: every field as it is
Debug_fmt_derived(c) ==
    IF c.variant = "Token"
    THEN <<"Token", " { ", "token", ": ">> \o Debug_str(c.token)
             \o <<", ", "cert", ": ">> \o Debug_Option(c.cert) \o <<" }">>
    ELSE IF c.variant = "BasicAuth"
    THEN <<"BasicAuth", " { ", "username", ": ">> \o Debug_str(c.username)
             \o <<", ", "password", ": ">> \o Debug_String(c.password)
             \o <<", ", "cert", ": ">> \o Debug_Option(c.cert) \o <<" }">>
    ELSE IF c.variant = "LegacyAuth"
    THEN <<"LegacyAuth", " { ", "auth", ": ">> \o Debug_str(c.auth)
             \o <<", ", "username", ": ">> \o Debug_String(c.username)
             \o <<", ", "password", ": ">> \o Debug_String(c.password)
             \o <<", ", "cert", ": ">> \o Debug_Option(c.cert) \o <<" }">>
    ELSE <<"ClientCertOnly", "(">> \o Debug_ClientCert(c.cert[1]) \o <<")">>

\* <Credentials as Debug>::fmt
Debug_fmt(c) ==
    IF c.variant = "Token"
    THEN <<"Token", " { ", "token", ": ">> \o REDACTED
             \o <<", ", "cert", ": ">> \o Debug_Option(c.cert) \o <<" }">>
    ELSE IF c.variant = "BasicAuth"
    THEN <<"BasicAuth", " { ", "username", ": ">> \o Debug_str(c.username)
             \o <<", ", "password", ": ">> \o REDACTED
             \o <<", ", "cert", ": ">> \o Debug_Option(c.cert) \o <<" }">>
    ELSE IF c.variant = "LegacyAuth"
    THEN <<"LegacyAuth", " { ", "auth", ": ">> \o REDACTED
             \o <<", ", "username", ": ">> \o Debug_String(c.username)
             \o <<", ", "password", ": ">> \o REDACTED
             \o <<", ", "cert", ": ">> \o Debug_Option(c.cert) \o <<" }">>
    ELSE <<"ClientCertOnly", "(">> \o Debug_ClientCert(c.cert[1]) \o <<")">>

\* the texts the fields of the formatted values hold
ConfigTexts == { <<>>, <<"t">>, <<"a", "\"">> }

DecodedTexts == { <<>>, <<112>>, <<117, 34>> }

Certs == { None,
           Some(ClientCert(<<"/", "c">>, <<"/", "k">>)),
           Some(ClientCert(<<"/", "r", "/", "c">>, <<"\\", "k">>)) }

\* the Credentials values credentials_for can build out of those texts
CredentialsValues ==
    { Token(t, cert) : t \in ConfigTexts, cert \in Certs }
    \cup { BasicAuth(u, p, cert) :
               u \in ConfigTexts, p \in DecodedTexts, cert \in Certs }
    \cup { LegacyAuth(a, u, p, cert) :
               a \in {<<"d", "T", "p", "w">>, <<"d", "T", "o", "=">>},
               u \in DecodedTexts, p \in DecodedTexts, cert \in Certs }
    \cup { ClientCertOnly(cert[1]) : cert \in Certs \ {None} }

InitDebug ==
    /\ global_config = None
    /\ user_config = None
    /\ project_config = None
    /\ pc = "done"
    /\ home = HOME
    /\ url = NoUrl
    /\ nerfed = None
    /\ debug_in \in { Some(c) : c \in CredentialsValues }
    /\ debug_out = None
    /\ env = ENV_EMPTY
    /\ parse_idle
    /\ load_idle
    /\ prefix_idle

\* format!("{:?}", creds)
call_Debug_fmt ==
    /\ debug_in # None
    /\ debug_out = None
    /\ debug_out' = Some(Debug_fmt(debug_in[1]))
    /\ UNCHANGED <<global_config, user_config, project_config, pc, home, url, nerfed,
                   debug_in, env, parse_vars, load_vars, prefix_vars>>

NextDebug == call_Debug_fmt

SpecDebug == InitDebug /\ [][NextDebug]_vars

-----------------------------------------------------------------------------
(* registry.rs and the url crate: Url::parse for the texts a registry value *)
(* holds here: lower-case ASCII without '.' segments or '%', so that case   *)
(* folding, percent-encoding and dot-segment removal leave them as they are *)

LETTERS ==
    {"a", "b", "c", "d", "e", "f", "g", "h", "i", "j", "k", "l", "m",
     "n", "o", "p", "q", "r", "s", "t", "u", "v", "w", "x", "y", "z"}

DIGITS == {"0", "1", "2", "3", "4", "5", "6", "7", "8", "9"}

\* the code points a host may not hold
FORBIDDEN_HOST == {" ", "#", "%", "/", ":", "<", ">", "?", "@", "[", "\\", "]", "^", "|"}

RECURSIVE join(_)
\* the characters of a text as one string
join(s) == IF s = <<>> THEN "" ELSE s[1] \o join(Tail(s))

\* the value of a digit character
digit_value(c) == CHOOSE d \in 0..9 : Digit(d) = c

RECURSIVE parse_number(_)
\* the number a text of digits denotes
parse_number(s) ==
    IF s = <<>> THEN 0 ELSE parse_number(SubSeq(s, 1, Len(s) - 1)) * 10 + digit_value(s[Len(s)])

\* the index of the first character of s that is in the set, or Len(s) + 1
first_of(s, set) ==
    IF \E i \in 1..Len(s) : s[i] \in set
    THEN CHOOSE i \in 1..Len(s) : s[i] \in set /\ \A j \in 1..(i - 1) : s[j] \notin set
    ELSE Len(s) + 1

\* the index of the first character of s that is not in the set, or Len(s) + 1
first_outside(s, set) ==
    IF \E i \in 1..Len(s) : s[i] \notin set
    THEN CHOOSE i \in 1..Len(s) : s[i] \notin set /\ \A j \in 1..(i - 1) : s[j] \in set
    ELSE Len(s) + 1

\* the largest port a Url holds
MAX_PORT == 65535

\* path, query and fragment of what follows the authority
parse_path(scheme, userinfo, host, explicit_port, tail, special) ==
    LET hash == first_of(tail, {"#"})
        before_hash == SubSeq(tail, 1, hash - 1)
        mark == first_of(before_hash, {"?"})
        raw == SubSeq(before_hash, 1, mark - 1)
        slashed == [i \in 1..Len(raw) |-> IF special /\ raw[i] = "\\" THEN "/" ELSE raw[i]]
    IN  Ok(Url(join(scheme), userinfo, host, explicit_port,
               IF special /\ slashed = <<>> THEN <<"/">> ELSE slashed,
               IF mark <= Len(before_hash)
               THEN Some(SubSeq(before_hash, mark + 1, Len(before_hash))) ELSE None,
               IF hash <= Len(tail) THEN Some(SubSeq(tail, hash + 1, Len(tail))) ELSE None))

\* what follows `scheme:` of a special scheme: slashes, the authority, the rest
parse_special(scheme, rest) ==
    LET start == first_outside(rest, {"/", "\\"})
        a == SubSeq(rest, start, Len(rest))
        stop == first_of(a, {"/", "\\", "?", "#"})
        authority == SubSeq(a, 1, stop - 1)
        tail == SubSeq(a, stop, Len(a))
        at == rfind(authority, "@")
        userinfo == IF at = None THEN <<>> ELSE SubSeq(authority, 1, at[1] - 1)
        hostport == IF at = None THEN authority ELSE SubSeq(authority, at[1] + 1, Len(authority))
        colon == rfind(hostport, ":")
        host == IF colon = None THEN hostport ELSE SubSeq(hostport, 1, colon[1] - 1)
        port_text == IF colon = None THEN <<>> ELSE SubSeq(hostport, colon[1] + 1, Len(hostport))
    IN  IF \E i \in 1..Len(port_text) : port_text[i] \notin DIGITS THEN Err("InvalidPort")
        ELSE IF Len(port_text) > 5 \/ parse_number(port_text) > MAX_PORT THEN Err("InvalidPort")
        ELSE IF host = <<>> THEN Err("EmptyHost")
        ELSE IF \E i \in 1..Len(host) : host[i] \in FORBIDDEN_HOST THEN Err("InvalidDomainCharacter")
        ELSE parse_path(scheme,
                        IF userinfo = <<>> THEN None ELSE Some(userinfo),
                        Some(host),
                        IF port_text = <<>> \/ Some(parse_number(port_text)) = default_port(join(scheme))
                        THEN None ELSE Some(parse_number(port_text)),
                        tail, TRUE)

\* Url::parse: a text with no scheme has no base to be resolved against; a
\* special scheme is followed by an authority; after any other scheme the rest
\* is the path (an authority after such a scheme is not among the texts parsed)
Url_parse(s) ==
    LET colon == find(s, ":")
    IN  IF \/ colon = None
           \/ s[1] \notin LETTERS
           \/ \E i \in 2..(colon[1] - 1) : s[i] \notin LETTERS \cup DIGITS \cup {"+", "-", "."}
        THEN Err("RelativeUrlWithoutBase")
        ELSE LET scheme == SubSeq(s, 1, colon[1] - 1)
                 rest == SubSeq(s, colon[1] + 1, Len(s))
             IN  IF join(scheme) \in SpecialSchemes
                 THEN parse_special(scheme, rest)
                 ELSE parse_path(scheme, None, None, None, rest, FALSE)

\* registry.rs: DEFAULT_REGISTRY
DEFAULT_REGISTRY ==
    <<"h", "t", "t", "p", "s", ":", "/", "/",
      "r", "e", "g", "i", "s", "t", "r", "y", ".", "n", "p", "m", "j", "s", ".", "o", "r", "g", "/">>

\* parse_registry_url without the trailing slash it ensures
parse_registry_url_as_is(u) == Url_parse(u)

\* registry.rs: parse_registry_url
parse_registry_url(u) ==
    LET normalized == IF ends_with(u, <<"/">>) THEN u ELSE u \o <<"/">>
    IN  Url_parse(normalized)

\* extract_scope that cuts at the last '/'
extract_scope_last_slash(package) ==
    IF starts_with(package, <<"@">>)
    THEN LET end == IF rfind(package, "/") # None THEN rfind(package, "/")[1] - 1 ELSE Len(package)
         IN  Some(SubSeq(package, 1, end))
    ELSE None

\* registry.rs: extract_scope
extract_scope(package) ==
    IF starts_with(package, <<"@">>)
    THEN LET end == IF find(package, "/") # None THEN find(package, "/")[1] - 1 ELSE Len(package)
         IN  Some(SubSeq(package, 1, end))
    ELSE None

REGISTRY_SUFFIX == <<":", "r", "e", "g", "i", "s", "t", "r", "y">>

\* registry.rs: scope_registry_key
scope_registry_key(scope) == scope \o REGISTRY_SUFFIX

REGISTRY_KEY == <<"r", "e", "g", "i", "s", "t", "r", "y">>

\* config.rs: NpmrcConfig::default_registry
default_registry(self) ==
    LET r == get(self, REGISTRY_KEY)
    IN  IF r # None /\ parse_registry_url(r[1]).ok
        THEN parse_registry_url(r[1]).val
        ELSE Url_parse(DEFAULT_REGISTRY).val

\* config.rs: NpmrcConfig::registry_for
registry_for(self, package) ==
    LET scope == extract_scope(package)
        u == IF scope # None THEN get(self, scope_registry_key(scope[1])) ELSE None
    IN  IF u # None /\ parse_registry_url(u[1]).ok
        THEN parse_registry_url(u[1]).val
        ELSE default_registry(self)

\* the entries one layer adds to the result of scoped_registries
collect_scoped(result, layer) ==
    IF layer = None THEN result
    ELSE LET data == layer[1].data
             found == { key \in DOMAIN data :
                            /\ starts_with(key, <<"@">>)
                            /\ ends_with(key, REGISTRY_SUFFIX)
                            /\ parse_registry_url(data[key]).ok }
             scope(key) == SubSeq(key, 1, Len(key) - Len(REGISTRY_SUFFIX))
             scopes == { scope(key) : key \in found }
         IN  [x \in DOMAIN result \cup scopes |->
                 IF x \in scopes
                 THEN parse_registry_url(data[x \o REGISTRY_SUFFIX]).val
                 ELSE result[x]]

\* scoped_registries that lets the lower-priority layer overwrite
scoped_registries_global_last(self) ==
    collect_scoped(collect_scoped(collect_scoped(EmptyMap, self.project_config),
                                  self.user_config), self.global_config)

\* config.rs: NpmrcConfig::scoped_registries
scoped_registries(self) ==
    collect_scoped(collect_scoped(collect_scoped(EmptyMap, self.global_config),
                                  self.user_config), self.project_config)

(* The files of the registry scenario and the packages asked for *)

SCOPE_S == <<"@", "s">>

SCOPE_T == <<"@", "t">>

\* the `key = value` lines a config file may hold
RegistryLines ==
    { <<REGISTRY_KEY, <<"h", "t", "t", "p", "s", ":", "/", "/", "h">>>>,       \* https://h
      <<REGISTRY_KEY, <<"h", ":", "1">>>>,                                     \* h:1
      <<REGISTRY_KEY, <<"h">>>>,                                               \* no URL
      <<scope_registry_key(SCOPE_S),
        <<"h", "t", "t", "p", "s", ":", "/", "/", "g", "/", "s">>>>,           \* https://g/s
      <<scope_registry_key(SCOPE_S),
        <<"h", "t", "t", "p", "s", ":", "/", "/", "h">>>>,                     \* https://h
      <<scope_registry_key(SCOPE_S), <<"/", "/", "g", "/">>>>,                 \* no URL
      <<scope_registry_key(SCOPE_T),
        <<"h", "t", "t", "p", ":", "/", "/", "g", ":", "8", "0", "/">>>> }     \* http://g:80/

RegistryKeys == { l[1] : l \in RegistryLines }

Packages ==
    { <<"@", "s", "/", "p">>,              \* @s/p
      <<"@", "s">>,                        \* @s
      <<"@", "t", "/", "p", "/", "q">>,    \* @t/p/q
      <<"@", "u", "/", "p">>,              \* @u/p
      <<"p">>,                             \* p
      <<"s", "/", "@", "s">> }             \* s/@s

NextRegistry ==
    \/ \E l \in LayerNames : load_absent(l)
    \/ \E l \in LayerNames : load_open(l)
    \/ \E l \in LayerNames : \E line \in RegistryLines : parse_npmrc_line(l, line[1], line[2])
    \/ \E l \in LayerNames : load_done(l)

SpecRegistry == Init /\ [][NextRegistry]_vars

-----------------------------------------------------------------------------
(* parser.rs: parse_npmrc and expand_env_vars *)

\* the characters str::trim removes
WHITESPACE == {" ", "\t", "\n", "\r", "\f"}

\* str::trim
trim(t) ==
    IF \A i \in 1..Len(t) : t[i] \in WHITESPACE THEN <<>>
    ELSE LET first == first_outside(t, WHITESPACE)
             last == CHOOSE i \in 1..Len(t) :
                         t[i] \notin WHITESPACE /\ \A j \in (i + 1)..Len(t) : t[j] \in WHITESPACE
         IN  SubSeq(t, first, last)

RECURSIVE lines(_)
\* str::lines: the text split at each '\n', a final '\r' of a line removed;
\* what follows the last '\n' is a line only if it is not empty
lines(t) ==
    IF t = <<>> THEN <<>>
    ELSE LET n == first_of(t, {"\n"})
             raw == SubSeq(t, 1, n - 1)
             line == IF Len(raw) > 0 /\ raw[Len(raw)] = "\r"
                     THEN SubSeq(raw, 1, Len(raw) - 1) ELSE raw
         IN  <<line>> \o lines(SubSeq(t, n + 1, Len(t)))

\* a byte of an environment value that is part of no UTF-8 sequence
INVALID_BYTE == "0xFF"

\* OsString::into_string: the text, unless the value is not valid Unicode
into_string(os) == IF \E i \in 1..Len(os) : os[i] = INVALID_BYTE THEN None ELSE Some(os)

\* std::env::var(name): the value; an error when the variable is not set
\* (NotPresent) and when its value is not valid Unicode (NotUnicode), which
\* the `Err(_)` arm of the caller does not tell apart
std_env_var(name) == IF name \in DOMAIN env THEN into_string(env[name]) ELSE None

\* n backslashes
backslashes(n) == [i \in 1..n |-> "\\"]

\* ENV_EXPR with `*` in place of `+` for the name: `${}` and `${?}` match too
ENV_EXPR_at_empty_name(value, i) ==
    LET rest == SubSeq(value, i, Len(value))
        esc == first_outside(rest, {"\\"}) - 1
        after == SubSeq(rest, esc + 1, Len(rest))
        body == SubSeq(after, 3, Len(after))
        name_len == first_of(body, {"$", "{", "}", "?"}) - 1
        tail == SubSeq(body, name_len + 1, Len(body))
    IN  IF ~starts_with(after, <<"$", "{">>) THEN None
        ELSE IF starts_with(tail, <<"}">>)
        THEN Some([esc |-> esc, name |-> SubSeq(body, 1, name_len), modifier |-> <<>>,
                   end |-> i + esc + 2 + name_len + 1])
        ELSE IF starts_with(tail, <<"?", "}">>)
        THEN Some([esc |-> esc, name |-> SubSeq(body, 1, name_len), modifier |-> <<"?">>,
                   end |-> i + esc + 2 + name_len + 2])
        ELSE None

\* ENV_EXPR tried at position i of the value: any backslashes, then `${`, a
\* name of one or more characters other than `$ { } ?`, an optional `?`, `}`.
\* Gives the match (esc, name, modifier, the position after it) or none.
ENV_EXPR_at(value, i) ==
    LET rest == SubSeq(value, i, Len(value))
        esc == first_outside(rest, {"\\"}) - 1
        after == SubSeq(rest, esc + 1, Len(rest))
        body == SubSeq(after, 3, Len(after))
        name_len == first_of(body, {"$", "{", "}", "?"}) - 1
        tail == SubSeq(body, name_len + 1, Len(body))
    IN  IF ~starts_with(after, <<"$", "{">>) \/ name_len = 0 THEN None
        ELSE IF starts_with(tail, <<"}">>)
        THEN Some([esc |-> esc, name |-> SubSeq(body, 1, name_len), modifier |-> <<>>,
                   end |-> i + esc + 2 + name_len + 1])
        ELSE IF starts_with(tail, <<"?", "}">>)
        THEN Some([esc |-> esc, name |-> SubSeq(body, 1, name_len), modifier |-> <<"?">>,
                   end |-> i + esc + 2 + name_len + 2])
        ELSE None

\* a closure for which an odd run of backslashes protects only an unset name
replace_match_escape_unset_only(caps) ==
    IF caps.esc % 2 = 1 /\ std_env_var(caps.name) = None
    THEN backslashes(caps.esc \div 2) \o <<"$", "{">> \o caps.name \o caps.modifier \o <<"}">>
    ELSE backslashes(caps.esc \div 2)
             \o (IF std_env_var(caps.name) # None THEN std_env_var(caps.name)[1]
                 ELSE IF caps.modifier = <<"?">> THEN <<>>
                 ELSE <<"$", "{">> \o caps.name \o <<"}">>)

\* a closure that keeps the literal of every unset name, `?` or not
replace_match_no_modifier(caps) ==
    IF caps.esc % 2 = 1
    THEN backslashes(caps.esc \div 2) \o <<"$", "{">> \o caps.name \o caps.modifier \o <<"}">>
    ELSE backslashes(caps.esc \div 2)
             \o (IF std_env_var(caps.name) # None THEN std_env_var(caps.name)[1]
                 ELSE <<"$", "{">> \o caps.name \o <<"}">>)

\* the closure of expand_env_vars: what one match is replaced by
replace_match(caps) ==
    IF caps.esc % 2 = 1
    THEN backslashes(caps.esc \div 2) \o <<"$", "{">> \o caps.name \o caps.modifier \o <<"}">>
    ELSE backslashes(caps.esc \div 2)
             \o (IF std_env_var(caps.name) # None THEN std_env_var(caps.name)[1]
                 ELSE IF caps.modifier = <<"?">> THEN <<>>
                 ELSE <<"$", "{">> \o caps.name \o <<"}">>)

RECURSIVE replace_all(_, _)
\* Regex::replace_all from position i: the leftmost match, then the next after it
replace_all(value, i) ==
    IF i > Len(value) THEN <<>>
    ELSE IF ENV_EXPR_at(value, i) = None THEN <<value[i]>> \o replace_all(value, i + 1)
    ELSE replace_match(ENV_EXPR_at(value, i)[1]) \o replace_all(value, ENV_EXPR_at(value, i)[1].end)

\* an expansion that scans the substituted text once more
expand_env_vars_rescanned(value) == replace_all(replace_all(value, 1), 1)

\* parser.rs: expand_env_vars
expand_env_vars(value) == replace_all(value, 1)

\* the loop body of parse_npmrc that cuts a line at its last '='
parse_line_last_equals(result, raw) ==
    LET line == trim(raw)
    IN  IF line = <<>> THEN result
        ELSE IF starts_with(line, <<"#">>) \/ starts_with(line, <<";">>) THEN result
        ELSE IF rfind(line, "=") = None THEN result
        ELSE LET eq_pos == rfind(line, "=")[1]
                 key == trim(SubSeq(line, 1, eq_pos - 1))
                 value == trim(SubSeq(line, eq_pos + 1, Len(line)))
             IN  IF key = <<>> THEN result
                 ELSE insert(result, key, expand_env_vars(value))

\* the loop body of parse_npmrc that ends a line at a '#' or ';'
parse_line_inline_comment(result, raw) ==
    LET whole == trim(raw)
        line == trim(SubSeq(whole, 1, first_of(whole, {"#", ";"}) - 1))
    IN  IF line = <<>> THEN result
        ELSE IF find(line, "=") = None THEN result
        ELSE LET eq_pos == find(line, "=")[1]
                 key == trim(SubSeq(line, 1, eq_pos - 1))
                 value == trim(SubSeq(line, eq_pos + 1, Len(line)))
             IN  IF key = <<>> THEN result
                 ELSE insert(result, key, expand_env_vars(value))

\* parser.rs: the loop body of parse_npmrc, one line
parse_line(result, raw) ==
    LET line == trim(raw)
    IN  IF line = <<>> THEN result
        ELSE IF starts_with(line, <<"#">>) \/ starts_with(line, <<";">>) THEN result
        ELSE IF find(line, "=") = None THEN result
        ELSE LET eq_pos == find(line, "=")[1]
                 key == trim(SubSeq(line, 1, eq_pos - 1))
                 value == trim(SubSeq(line, eq_pos + 1, Len(line)))
             IN  IF key = <<>> THEN result
                 ELSE insert(result, key, expand_env_vars(value))

RECURSIVE parse_lines(_, _)
\* the loop of parse_npmrc over the lines, in order
parse_lines(result, ls) ==
    IF ls = <<>> THEN result ELSE parse_lines(parse_line(result, ls[1]), Tail(ls))

\* parser.rs: parse_npmrc
parse_npmrc(text) == Ok(parse_lines(EmptyMap, lines(text)))

(* The texts parsed: up to MaxLines lines joined by '\n' *)

\* lines of a parsed text
MaxLines == 2

\* every text of at most two characters out of a, =, space and #
ShortLines == UNION { [1..n -> {"a", "=", " ", "#"}] : n \in 0..2 }

LineTexts ==
    ShortLines \cup
    { <<"a", "=", "b", "#", "c">>,                          \* a=b#c
      <<"a", ";", "x", " ", "=", "\t", "b", " ", "c", " ">>, \* a;x =<tab>b c
      <<" ", ";", "a", "=", "b">>,                          \*  ;a=b
      <<"a", "=", "b", "=", "c", "\r">>,                    \* a=b=c<cr>
      <<"b", "=", "$", "{", "V", "}">>,                     \* b=${V}
      <<"b", "=", "$", "{", "V", "?", "}", "$", "{", "U", "?", "}">>,   \* b=${V?}${U?}
      <<"a", "=", "\\", "$", "{", "V", "}">>,               \* a=\${V}
      <<"a", "=", "\\", "\\", "$", "{", "V", "}", "}">>,    \* a=\\${V}}
      <<"a", "=", "$", "{", "}", "$", "{", "U", "}">> }     \* a=${}${U}

RECURSIVE join_lines(_)
join_lines(ls) ==
    IF ls = <<>> THEN <<>>
    ELSE IF Len(ls) = 1 THEN ls[1]
    ELSE ls[1] \o <<"\n">> \o join_lines(Tail(ls))

Contents == { join_lines(ls) : ls \in UNION { [1..n -> LineTexts] : n \in 0..MaxLines } }

ENV_V == <<"V">>

\* the environments: V set to `x y`, or not set; U is never set
Environments == { ENV_EMPTY, [name \in {ENV_V} |-> <<"x", " ", "y">>] }

InitParse ==
    /\ global_config = None
    /\ user_config = None
    /\ project_config = None
    /\ pc = "done"
    /\ home = HOME
    /\ url = NoUrl
    /\ nerfed = None
    /\ debug_idle
    /\ env \in Environments
    /\ content \in Contents
    /\ parsed = None
    /\ load_idle
    /\ prefix_idle

\* parse_npmrc(&content, path)
call_parse_npmrc ==
    /\ parsed = None
    /\ parsed' = Some(parse_npmrc(content))
    /\ UNCHANGED <<global_config, user_config, project_config, pc, home, url, nerfed,
                   debug_vars, env, content, load_vars, prefix_vars>>

NextParse == call_parse_npmrc

SpecParse == InitParse /\ [][NextParse]_vars

(* expand_env_vars on its own: every short value, and values with a run of *)
(* backslashes before a reference, in environments where V is set or not   *)

\* characters of a value
MaxValueLen == 4

\* the characters ENV_EXPR tells apart, and V as the plain one
ValueChars == {"$", "{", "}", "?", "\\", "V"}

REF_V == <<"$", "{", "V", "}">>          \* ${V}

REF_V_OPTIONAL == <<"$", "{", "V", "?", "}">>   \* ${V?}

\* a plain character or nothing, up to three backslashes, a reference to V,
\* and nothing, a plain character or another reference after it
EscapedValues ==
    { pre \o backslashes(n) \o ref \o post :
          pre \in { <<>>, <<"V">> }, n \in 0..3, ref \in { REF_V, REF_V_OPTIONAL },
          post \in { <<>>, <<"V">>, REF_V } }

Values == UNION { [1..n -> ValueChars] : n \in 0..MaxValueLen } \cup EscapedValues

ENV_U == <<"U">>

\* nothing set; V empty; V = x; V a byte that is not UTF-8; V = ${U} with U = z
ExpandEnvironments ==
    { ENV_EMPTY,
      [name \in {ENV_V} |-> <<>>],
      [name \in {ENV_V} |-> <<"x">>],
      [name \in {ENV_V} |-> <<INVALID_BYTE>>],
      [name \in {ENV_V, ENV_U} |-> IF name = ENV_V THEN <<"$", "{", "U", "}">> ELSE <<"z">>] }

InitExpand ==
    /\ global_config = None
    /\ user_config = None
    /\ project_config = None
    /\ pc = "done"
    /\ home = HOME
    /\ url = NoUrl
    /\ nerfed = None
    /\ debug_idle
    /\ env \in ExpandEnvironments
    /\ content \in Values
    /\ parsed = None
    /\ load_idle
    /\ prefix_idle

\* expand_env_vars(value)
call_expand_env_vars ==
    /\ parsed = None
    /\ parsed' = Some(expand_env_vars(content))
    /\ UNCHANGED <<global_config, user_config, project_config, pc, home, url, nerfed,
                   debug_vars, env, content, load_vars, prefix_vars>>

NextExpand == call_expand_env_vars

SpecExpand == InitExpand /\ [][NextExpand]_vars

-----------------------------------------------------------------------------
(* config.rs: ConfigData::load, load_with_options and load_from_file, on   *)
(* a machine whose config files may be missing or may not be readable.     *)

\* the states of a path on the machine
ABSENT == [kind |-> "absent", text |-> <<>>]           \* no such file

HIDDEN == [kind |-> "hidden", text |-> <<>>]           \* a file in a directory the process may not search

UNREADABLE == [kind |-> "unreadable", text |-> <<>>]   \* a file the process may not open

File(text) == [kind |-> "file", text |-> text]         \* a file holding `text`

\* std::fs::metadata(path)
fs_metadata(p) ==
    IF files[p].kind = "absent" THEN Err("NotFound")
    ELSE IF files[p].kind = "hidden" THEN Err("PermissionDenied")
    ELSE Ok("file")

\* Path::exists: whether the metadata of the path can be read
Path_exists(p) == fs_metadata(p).ok

\* std::fs::read_to_string(path)
read_to_string(p) ==
    IF files[p].kind = "absent" THEN Err("NotFound")
    ELSE IF files[p].kind \in {"hidden", "unreadable"} THEN Err("PermissionDenied")
    ELSE Ok(files[p].text)

\* error.rs: Error::FileNotFound(path)
FileNotFound(p) == [error |-> "FileNotFound", path |-> p]

\* error.rs: Error::ReadFile { path, source }
ReadFile(p, source) == [error |-> "ReadFile", path |-> p, source |-> source]

\* config.rs: ConfigData::load
ConfigData_load(p) ==
    IF ~Path_exists(p) THEN Ok(None)
    ELSE LET read == read_to_string(p)
         IN  IF ~read.ok THEN Err(ReadFile(p, read.err))
             ELSE LET data == parse_npmrc(read.val)
                  IN  IF ~data.ok THEN Err(data.err)
                      ELSE Ok(Some([source |-> p, data |-> data.val]))

\* the NpmrcConfig value made of three layers
NpmrcConfig(global, user, project) ==
    [global_config |-> global, user_config |-> user, project_config |-> project]

\* a single-file load that treats a missing file as an absent layer
load_from_file_lenient(p) ==
    LET loaded_layer == ConfigData_load(p)
    IN  IF ~loaded_layer.ok THEN Err(loaded_layer.err)
        ELSE Ok(NpmrcConfig(None, None, loaded_layer.val))

\* config.rs: NpmrcConfig::load_from_file
load_from_file(p) ==
    IF ~Path_exists(p) THEN Err(FileNotFound(p))
    ELSE LET read == read_to_string(p)
         IN  IF ~read.ok THEN Err(ReadFile(p, read.err))
             ELSE LET data == parse_npmrc(read.val)
                  IN  IF ~data.ok THEN Err(data.err)
                      ELSE Ok(NpmrcConfig(None, None,
                                          Some([source |-> p, data |-> data.val])))

\* LoadOptions (cwd apart: find_local_prefix gives LOCAL_PREFIX)
LoadOptions(global_prefix, user_config_override, skip_project, skip_user, skip_global) ==
    [global_prefix |-> global_prefix, user_config |-> user_config_override,
     skip_project |-> skip_project, skip_user |-> skip_user, skip_global |-> skip_global]

\* paths.rs: user_config_path
user_config_path == IF home # None THEN Some(path_join(home[1], <<".", "n", "p", "m", "r", "c">>)) ELSE None

\* opts.skip_global, opts.skip_user, opts.skip_project
skip(l) ==
    IF l = "global" THEN call.opts.skip_global
    ELSE IF l = "user" THEN call.opts.skip_user
    ELSE call.opts.skip_project

\* the path load_with_options computes for a layer, if it can compute one
layer_path(l) ==
    IF l = "global"
    THEN LET global_prefix == IF call.opts.global_prefix # None THEN call.opts.global_prefix
                              ELSE node_prefix
         IN  IF global_prefix # None THEN Some(global_config_path(global_prefix[1])) ELSE None
    ELSE IF l = "user"
    THEN IF call.opts.user_config # None THEN call.opts.user_config ELSE user_config_path
    ELSE Some(project_config_path(LOCAL_PREFIX))

\* what load_with_options gets for a layer: Result<Option<ConfigData>>
load_layer_result(l) ==
    IF skip(l) THEN Ok(None)
    ELSE IF layer_path(l) = None THEN Ok(None)
    ELSE ConfigData_load(layer_path(l)[1])

\* load_with_options loads one layer; `?` returns the error of ConfigData::load
load_layer(l) ==
    /\ call.entry = "load_with_options"
    /\ pc = l
    /\ LET r == load_layer_result(l)
       IN  IF r.ok
           THEN /\ set_layer(l, r.val)
                /\ pc' = next_pc(l)
                /\ error' = error
           ELSE /\ pc' = "failed"
                /\ error' = Some(r.err)
                /\ UNCHANGED <<global_config, user_config, project_config>>
    /\ UNCHANGED <<home, url, nerfed, debug_vars, prefix_vars, env, parse_vars,
                   files, node_prefix, call, answers>>

\* NpmrcConfig::load_from_file(path)
call_load_from_file ==
    /\ call.entry = "load_from_file"
    /\ pc = "file"
    /\ LET r == load_from_file(call.path)
       IN  IF r.ok
           THEN /\ global_config' = r.val.global_config
                /\ user_config' = r.val.user_config
                /\ project_config' = r.val.project_config
                /\ pc' = "done"
                /\ error' = error
           ELSE /\ pc' = "failed"
                /\ error' = Some(r.err)
                /\ UNCHANGED <<global_config, user_config, project_config>>
    /\ UNCHANGED <<home, url, nerfed, debug_vars, prefix_vars, env, parse_vars,
                   files, node_prefix, call, answers>>

(* The machines a load may run on *)

GLOBAL_NPMRC == global_config_path(GLOBAL_PREFIX)      \* /g/etc/npmrc

HOME_NPMRC == path_join(HOME[1], <<".", "n", "p", "m", "r", "c">>)   \* /r/.npmrc

PROJECT_NPMRC == project_config_path(LOCAL_PREFIX)     \* /w/.npmrc

LoadPaths == { GLOBAL_NPMRC, USER_CONFIG, HOME_NPMRC, PROJECT_NPMRC }

KEY_K == <<"k">>

\* what a config file may hold: nothing, `k=1`, or `k=2`
FileTexts == { <<>>, <<"k", "=", "1">>, <<"k", "=", "2">> }

FileStates == { ABSENT, HIDDEN, UNREADABLE } \cup { File(t) : t \in FileTexts }

\* the file in the home directory is missing or holds `k=2`
Machines ==
    { f \in [LoadPaths -> FileStates] : f[HOME_NPMRC] \in { ABSENT, File(<<"k", "=", "2">>) } }

\* the calls: load_with_options(opts) and load_from_file(path)
Calls ==
    { [entry |-> "load_with_options", opts |-> LoadOptions(gp, uc, sp, su, sg), path |-> <<>>] :
          gp \in { None, Some(GLOBAL_PREFIX) }, uc \in { None, Some(USER_CONFIG) },
          sp \in BOOLEAN, su \in BOOLEAN, sg \in BOOLEAN }
    \cup { [entry |-> "load_from_file", opts |-> LoadOptions(None, None, FALSE, FALSE, FALSE),
            path |-> p] : p \in LoadPaths }

InitLoad ==
    /\ global_config = None
    /\ user_config = None
    /\ project_config = None
    /\ call \in Calls
    /\ pc = IF call.entry = "load_with_options" THEN "global" ELSE "file"
    /\ home \in { None, HOME }
    /\ files \in Machines
    /\ node_prefix \in { None, Some(GLOBAL_PREFIX) }
    /\ error = None
    /\ answers = None
    /\ url = NoUrl
    /\ nerfed = None
    /\ debug_idle
    /\ env = ENV_EMPTY
    /\ parse_idle
    /\ prefix_idle

NextLoad ==
    \/ \E l \in LayerNames : load_layer(l)
    \/ call_load_from_file

SpecLoad == InitLoad /\ [][NextLoad]_vars

-----------------------------------------------------------------------------
(* A loaded config in a process whose files, environment variables and     *)
(* home directory change after the load.                                   *)

\* //h/:certfile=~/c and //h/:keyfile=/k
CERT_TEXT ==
    NERF_H \o CERTFILE_SUFFIX \o <<"=", "~", "/", "c", "\n">>
    \o NERF_H \o KEYFILE_SUFFIX \o <<"=", "/", "k">>

\* registry=${V} and @s:registry=https://g/s
REGISTRY_TEXT ==
    REGISTRY_KEY \o <<"=", "$", "{", "V", "}", "\n">>
    \o scope_registry_key(SCOPE_S) \o <<"=", "h", "t", "t", "p", "s", ":", "/", "/", "g", "/", "s">>

\* V is not set, or V is https://h
LifecycleEnvironments ==
    { ENV_EMPTY, [name \in {ENV_V} |-> <<"h", "t", "t", "p", "s", ":", "/", "/", "h">>] }

\* what dirs::home_dir() may come to return
Homes == { None, HOME, Some(<<"/", "q">>) }

UserStates == { ABSENT, File(REGISTRY_TEXT) }

ProjectStates == { ABSENT, File(CERT_TEXT), File(CERT_TEXT \o <<"\n">> \o REGISTRY_TEXT) }

\* the keys, packages and registry asked about
AskedKeys == { REGISTRY_KEY, NERF_H \o CERTFILE_SUFFIX, scope_registry_key(SCOPE_S) }

AskedPackages == { <<"p">>, <<"@", "s", "/", "p">> }

\* what the queries answer on the loaded config, now
answers_now ==
    [get |-> [k \in AskedKeys |-> get(config, k)],
     default_registry |-> default_registry(config),
     registry_for |-> [p \in AskedPackages |-> registry_for(config, p)],
     scoped_registries |-> scoped_registries(config),
     credentials_for |-> credentials_for(config, URL_ROOT)]

\* the caller asks get, default_registry, registry_for, scoped_registries and
\* credentials_for right after the load, and keeps the answers
ask ==
    /\ pc = "done"
    /\ answers = None
    /\ answers' = Some(answers_now)
    /\ UNCHANGED <<global_config, user_config, project_config, pc, home, url, nerfed,
                   debug_vars, prefix_vars, env, parse_vars, files, node_prefix, call, error>>

\* somebody rewrites, creates or removes a config file
write_file(p, state) ==
    /\ pc = "done"
    /\ files[p] # state
    /\ files' = [files EXCEPT ![p] = state]
    /\ UNCHANGED <<global_config, user_config, project_config, pc, home, url, nerfed,
                   debug_vars, prefix_vars, env, parse_vars, node_prefix, call, error, answers>>

\* std::env::set_var / remove_var of V
set_var(e) ==
    /\ pc = "done"
    /\ env # e
    /\ env' = e
    /\ UNCHANGED <<global_config, user_config, project_config, pc, home, url, nerfed,
                   debug_vars, parse_vars, load_vars, prefix_vars>>

\* HOME is set to another directory, or removed
set_home(h) ==
    /\ pc = "done"
    /\ home # h
    /\ home' = h
    /\ UNCHANGED <<global_config, user_config, project_config, pc, url, nerfed, others>>

\* the caller drops the config and calls load_with_options again
fresh_load ==
    /\ pc = "done"
    /\ answers # None
    /\ global_config' = None
    /\ user_config' = None
    /\ project_config' = None
    /\ pc' = "global"
    /\ answers' = None
    /\ UNCHANGED <<home, url, nerfed, debug_vars, prefix_vars, env, parse_vars,
                   files, node_prefix, call, error>>

InitLifecycle ==
    /\ global_config = None
    /\ user_config = None
    /\ project_config = None
    /\ call = [entry |-> "load_with_options",
               opts |-> LoadOptions(Some(GLOBAL_PREFIX), Some(USER_CONFIG), FALSE, FALSE, FALSE),
               path |-> <<>>]
    /\ pc = "global"
    /\ home \in Homes
    /\ files \in { f \in [LoadPaths -> UserStates \cup ProjectStates] :
                       /\ f[GLOBAL_NPMRC] = ABSENT
                       /\ f[HOME_NPMRC] = ABSENT
                       /\ f[USER_CONFIG] \in UserStates
                       /\ f[PROJECT_NPMRC] \in ProjectStates }
    /\ node_prefix = None
    /\ error = None
    /\ answers = None
    /\ url = NoUrl
    /\ nerfed = None
    /\ debug_idle
    /\ env \in LifecycleEnvironments
    /\ parse_idle
    /\ prefix_idle

NextLifecycle ==
    \/ \E l \in LayerNames : load_layer(l)
    \/ ask
    \/ \E state \in UserStates : write_file(USER_CONFIG, state)
    \/ \E state \in ProjectStates : write_file(PROJECT_NPMRC, state)
    \/ \E e \in LifecycleEnvironments : set_var(e)
    \/ \E h \in Homes : set_home(h)
    \/ fresh_load

SpecLifecycle == InitLifecycle /\ [][NextLifecycle]_vars

-----------------------------------------------------------------------------
(* parse_legacy_auth on its own: the `_auth` texts that encode a username  *)
(* and a password, as the tests build them with BASE64.encode              *)

RECURSIVE as_bytes(_)
\* str::as_bytes: the UTF-8 encoding of a text given by its scalar values
as_bytes(t) ==
    IF t = <<>> THEN <<>>
    ELSE LET c == t[1]
             head == IF c < 128 THEN <<c>>
                     ELSE IF c < 2048 THEN <<192 + (c \div 64), 128 + (c % 64)>>
                     ELSE IF c < 65536
                     THEN <<224 + (c \div 4096), 128 + ((c \div 64) % 64), 128 + (c % 64)>>
                     ELSE <<240 + (c \div 262144), 128 + ((c \div 4096) % 64),
                            128 + ((c \div 64) % 64), 128 + (c % 64)>>
         IN  head \o as_bytes(Tail(t))

RECURSIVE BASE64_encode(_)
\* BASE64.encode(bytes): four symbols for three bytes, the last group padded
BASE64_encode(b) ==
    IF Len(b) = 0 THEN <<>>
    ELSE IF Len(b) = 1
    THEN <<BASE64_ALPHABET[(b[1] \div 4) + 1], BASE64_ALPHABET[(b[1] % 4) * 16 + 1], "=", "=">>
    ELSE IF Len(b) = 2
    THEN <<BASE64_ALPHABET[(b[1] \div 4) + 1],
           BASE64_ALPHABET[(b[1] % 4) * 16 + (b[2] \div 16) + 1],
           BASE64_ALPHABET[(b[2] % 16) * 4 + 1], "=">>
    ELSE <<BASE64_ALPHABET[(b[1] \div 4) + 1],
           BASE64_ALPHABET[(b[1] % 4) * 16 + (b[2] \div 16) + 1],
           BASE64_ALPHABET[(b[2] % 16) * 4 + (b[3] \div 64) + 1],
           BASE64_ALPHABET[(b[3] % 64) + 1]>>
         \o BASE64_encode(SubSeq(b, 4, Len(b)))

\* characters of a username, and of a password
MaxNameLen == 2

\* u and e-acute (two bytes in UTF-8)
UsernameChars == {117, 233}

\* p, ':' and the euro sign (three bytes in UTF-8)
PasswordChars == {112, COLON, 8364}

Usernames == UNION { [1..n -> UsernameChars] : n \in 0..MaxNameLen }

Passwords == UNION { [1..n -> PasswordChars] : n \in 0..MaxNameLen }

\* base64(username + ":" + password)
legacy_auth(username, password) == BASE64_encode(as_bytes(username \o <<COLON>> \o password))

AuthTexts == { legacy_auth(u, p) : u \in Usernames, p \in Passwords }

InitLegacy ==
    /\ global_config = None
    /\ user_config = None
    /\ project_config = None
    /\ pc = "done"
    /\ home = HOME
    /\ url = NoUrl
    /\ nerfed = None
    /\ debug_idle
    /\ env = ENV_EMPTY
    /\ content \in AuthTexts
    /\ parsed = None
    /\ load_idle
    /\ prefix_idle

\* parse_legacy_auth(auth)
call_parse_legacy_auth ==
    /\ parsed = None
    /\ parsed' = Some(parse_legacy_auth(content))
    /\ UNCHANGED <<global_config, user_config, project_config, pc, home, url, nerfed,
                   debug_vars, env, content, load_vars, prefix_vars>>

NextLegacy == call_parse_legacy_auth

SpecLegacy == InitLegacy /\ [][NextLegacy]_vars

(* The files of the legacy-auth scenario: `_auth` values of every kind,    *)
(* and a token                                                             *)

AuthLines ==
    { <<NERF_H \o AUTH_SUFFIX, <<"d", "T", "p", "w">>>>,                      \* base64("u:p")
      <<NERF_H \o AUTH_SUFFIX, <<"d", "T", "p", "w", "O", "n", "E", "=">>>>,  \* base64("u:p:q")
      <<NERF_H \o AUTH_SUFFIX, <<"d", "Q", "=", "=">>>>,                      \* base64("u")
      <<NERF_H \o AUTH_SUFFIX, <<"O", "g", "=", "=">>>>,                      \* base64(":")
      <<NERF_H \o AUTH_SUFFIX, <<>>>>,                                        \* base64("")
      <<NERF_H \o AUTH_SUFFIX, <<"*">>>>,                                     \* not base64
      <<NERF_H \o AUTH_SUFFIX, <<"/", "w", "=", "=">>>>,                      \* base64(0xFF): not UTF-8
      <<NERF_H \o AUTH_TOKEN_SUFFIX, <<"t">>>> }

NextAuth ==
    \/ \E l \in LayerNames : load_absent(l)
    \/ \E l \in LayerNames : load_open(l)
    \/ \E l \in LayerNames : \E line \in AuthLines : parse_npmrc_line(l, line[1], line[2])
    \/ \E l \in LayerNames : load_done(l)

SpecAuth == Init /\ [][NextAuth]_vars

(* The files of the layer-mixing scenario: one value for each auth key *)

MergeLines ==
    { <<NERF_H \o AUTH_TOKEN_SUFFIX, <<"t">>>>,
      <<NERF_H \o USERNAME_SUFFIX, <<"u">>>>,
      <<NERF_H \o PASSWORD_SUFFIX, <<"c", "A", "=", "=">>>>,   \* base64("p")
      <<NERF_H \o AUTH_SUFFIX, <<"d", "T", "p", "w">>>>,       \* base64("u:p")
      <<NERF_H \o CERTFILE_SUFFIX, <<"/", "c">>>>,
      <<NERF_H \o KEYFILE_SUFFIX, <<"/", "k">>>> }

NextMerge ==
    \/ \E l \in LayerNames : load_absent(l)
    \/ \E l \in LayerNames : load_open(l)
    \/ \E l \in LayerNames : \E line \in MergeLines : parse_npmrc_line(l, line[1], line[2])
    \/ \E l \in LayerNames : load_done(l)

SpecMerge == Init /\ [][NextMerge]_vars

-----------------------------------------------------------------------------
(* Claims *)

holders(k) == { l \in LayerNames : layer_of(l) # None /\ k \in DOMAIN layer_of(l)[1].data }

top_holder(k) ==
    IF "project" \in holders(k) THEN "project"
    ELSE IF "user" \in holders(k) THEN "user"
    ELSE "global"

\* C1: get(key) returns the value stored in the highest-priority present layer
\* whose map contains the key (project > user > global), also when that value
\* is the empty string, and returns nothing only if no present layer holds it.
C1_GetPrecedence ==
    \A k \in ConfigKeys :
        IF holders(k) = {} THEN get(config, k) = None
        ELSE get(config, k) = Some(layer_of(top_holder(k))[1].data[k])

\* C1 witness: all three layers hold the key, the project layer with the empty
\* string and the user layer with another value, and get returns the empty string.
C1_Witness ==
    LET k == NERF_H \o AUTH_TOKEN_SUFFIX
    IN  /\ pc = "done"
        /\ holders(k) = LayerNames
        /\ project_config[1].data[k] = <<>>
        /\ user_config[1].data[k] = <<"t">>
        /\ get(config, k) = Some(<<>>)

(* What the merged config holds for the registry of a URL *)

AuthSuffixes ==
    { AUTH_TOKEN_SUFFIX, USERNAME_SUFFIX, PASSWORD_SUFFIX, AUTH_SUFFIX,
      CERTFILE_SUFFIX, KEYFILE_SUFFIX }

\* nerf_dart of each queried URL
NerfOf == [u \in QueryUrls |-> nerf_dart(u)]

\* load_with_options has returned: the NpmrcConfig exists
loaded == pc = "done"

merged(u, suffix) == get(config, NerfOf[u] \o suffix)

has(u, suffix) == merged(u, suffix) # None

\* the auth keys of the URL's registry present in the merged config
present_suffixes(u) == { x \in AuthSuffixes : has(u, x) }

basic_satisfied(u) ==
    /\ has(u, USERNAME_SUFFIX)
    /\ has(u, PASSWORD_SUFFIX)
    /\ decode_password(merged(u, PASSWORD_SUFFIX)[1]).ok

legacy_satisfied(u) ==
    has(u, AUTH_SUFFIX) /\ parse_legacy_auth(merged(u, AUTH_SUFFIX)[1]).ok

password_undecodable(u) ==
    has(u, PASSWORD_SUFFIX) /\ ~decode_password(merged(u, PASSWORD_SUFFIX)[1]).ok

variant_of(c) == IF c = None THEN "none" ELSE c[1].variant

\* C2: the mechanism is picked by a fixed priority: Token whenever _authToken is
\* present (also with the empty string as value), whatever else is set; with no
\* token, BasicAuth when username and a decodable _password are present, whatever
\* _auth holds; with neither, LegacyAuth when a decodable _auth is present.
C2_MechanismPriority ==
    loaded => \A u \in QueryUrls :
        LET c == credentials_for(config, u)
        IN  /\ has(u, AUTH_TOKEN_SUFFIX) =>
                   /\ variant_of(c) = "Token"
                   /\ c[1].token = merged(u, AUTH_TOKEN_SUFFIX)[1]
            /\ (~has(u, AUTH_TOKEN_SUFFIX) /\ basic_satisfied(u)) =>
                   /\ variant_of(c) = "BasicAuth"
                   /\ c[1].username = merged(u, USERNAME_SUFFIX)[1]
            /\ (~has(u, AUTH_TOKEN_SUFFIX) /\ ~basic_satisfied(u) /\ legacy_satisfied(u)) =>
                   /\ variant_of(c) = "LegacyAuth"
                   /\ c[1].auth = merged(u, AUTH_SUFFIX)[1]

\* C2 witness: an empty token, a username with a decodable _password and a
\* decodable _auth are all set for the registry, and the package URL gets Token.
C2_Witness ==
    /\ loaded
    /\ merged(URL_DECORATED, AUTH_TOKEN_SUFFIX) = Some(<<>>)
    /\ basic_satisfied(URL_DECORATED)
    /\ legacy_satisfied(URL_DECORATED)
    /\ credentials_for(config, URL_DECORATED) = Some(Token(<<>>, None))

\* the config that holds, in its project layer alone, the merged values of
\* the six keys of the URL's registry and nothing else
only_registry_keys(u) ==
    LET keys == { NerfOf[u] \o x : x \in present_suffixes(u) }
    IN  [global_config |-> None, user_config |-> None,
         project_config |->
             Some([source |-> config_path("project"),
                   data |-> [k \in keys |-> get(config, k)[1]]])]

\* C3: credentials do not leak across registries: credentials_for(u) is what it
\* would be if the config held the merged values of the six keys of u's
\* registry and nothing else (so no other key of any layer bears on it), and
\* when none of the six keys is present the result is no credentials.
C3_NoLeakAcrossRegistries ==
    loaded => \A u \in QueryUrls :
        /\ credentials_for(config, u) = credentials_for(only_registry_keys(u), u)
        /\ present_suffixes(u) = {} => credentials_for(config, u) = None

\* C3 witness: the registry //h/ holds a token and a complete certificate, a
\* URL of that registry gets them, and the registries //g/ and //h:8080/ get
\* nothing.
C3_Witness ==
    /\ loaded
    /\ has(URL_ROOT, AUTH_TOKEN_SUFFIX)
    /\ has(URL_ROOT, CERTFILE_SUFFIX)
    /\ has(URL_ROOT, KEYFILE_SUFFIX)
    /\ variant_of(credentials_for(config, URL_ROOT)) = "Token"
    /\ credentials_for(config, URL_OTHER) = None
    /\ credentials_for(config, URL_PORT) = None

\* the URL u lies beneath the registry root r: same host, same port, and the
\* root's path is a prefix of its path
beneath(u, r) ==
    /\ ends_with(path(r), <<"/">>)
    /\ host_str(u) = host_str(r)
    /\ port(u) = port(r)
    /\ starts_with(path(u), path(r))

\* the URL u lies directly beneath the root r: its path is the root's path, or
\* the root's path followed by one segment holding no '/'
directly_beneath(u, r) ==
    /\ beneath(u, r)
    /\ \A i \in (Len(path(r)) + 1)..Len(path(u)) : path(u)[i] # "/"

\* C4 as stated: credentials configured for a registry root apply to every URL
\* on that host and port whose path lies beneath the root's path.
C4_Original ==
    loaded => \A r \in QueryUrls : \A u \in QueryUrls :
        (beneath(u, r) /\ present_suffixes(r) # {})
        => credentials_for(config, u) = credentials_for(config, r)

\* C4 amended: credentials configured for a registry root apply to every URL
\* on that host and port whose path is the root's path or the root's path
\* followed by one final segment, whatever its query, fragment or userinfo.
C4_DirectlyBeneath ==
    loaded => \A r \in QueryUrls : \A u \in QueryUrls :
        (directly_beneath(u, r) /\ present_suffixes(r) # {})
        => credentials_for(config, u) = credentials_for(config, r)

\* C4 witness: a token is configured for the root //h/ and the URL
\* https://u:s@h/p?q#f, a package directly beneath it, gets that token.
C4_Witness ==
    /\ loaded
    /\ merged(URL_ROOT, AUTH_TOKEN_SUFFIX) = Some(<<"t">>)
    /\ directly_beneath(URL_DECORATED, URL_ROOT)
    /\ URL_DECORATED # URL_ROOT
    /\ credentials_for(config, URL_DECORATED) = Some(Token(<<"t">>, None))

\* C6: no partially built credential: BasicAuth is returned only when both
\* username and _password are present; a config holding only the username, or
\* only the _password, and no other auth key of the registry yields no
\* credentials.
C6_NoPartialBasicAuth ==
    loaded => \A u \in QueryUrls :
        LET c == credentials_for(config, u)
        IN  /\ variant_of(c) = "BasicAuth" =>
                   has(u, USERNAME_SUFFIX) /\ has(u, PASSWORD_SUFFIX)
            /\ present_suffixes(u) = {USERNAME_SUFFIX} => c = None
            /\ present_suffixes(u) = {PASSWORD_SUFFIX} => c = None

\* C6 witness: the merged config holds the username of the registry and none
\* of its other five keys, and the lookup returns no credentials.
C6_Witness ==
    /\ loaded
    /\ present_suffixes(URL_ROOT) = {USERNAME_SUFFIX}
    /\ credentials_for(config, URL_ROOT) = None

\* C7: a client certificate is resolved only as a whole: a returned
\* Credentials carries a cert if and only if both certfile and keyfile are
\* present in the merged config; with exactly one of the two present no
\* certificate is attached or returned, and with no other auth key the result
\* is no credentials.
C7_WholeCertificate ==
    loaded => \A u \in QueryUrls :
        LET c == credentials_for(config, u)
            both == has(u, CERTFILE_SUFFIX) /\ has(u, KEYFILE_SUFFIX)
            one == has(u, CERTFILE_SUFFIX) # has(u, KEYFILE_SUFFIX)
        IN  /\ c # None => (client_cert(c[1]) # None <=> both)
            /\ (one /\ c # None) =>
                   client_cert(c[1]) = None /\ variant_of(c) # "ClientCertOnly"
            /\ (one /\ Cardinality(present_suffixes(u)) = 1) => c = None

\* C7 witness: a token and the certfile are set, the keyfile is not, and the
\* Token returned carries no certificate.
C7_Witness ==
    /\ loaded
    /\ present_suffixes(URL_ROOT) = {AUTH_TOKEN_SUFFIX, CERTFILE_SUFFIX}
    /\ variant_of(credentials_for(config, URL_ROOT)) = "Token"
    /\ client_cert(credentials_for(config, URL_ROOT)[1]) = None

\* the certificate the merged certfile and keyfile of the registry make up
resolved_cert(u) ==
    IF has(u, CERTFILE_SUFFIX) /\ has(u, KEYFILE_SUFFIX)
    THEN Some([certfile |-> expand_tilde(merged(u, CERTFILE_SUFFIX)[1]),
               keyfile |-> expand_tilde(merged(u, KEYFILE_SUFFIX)[1])])
    ELSE None

\* C8: a resolved certificate is attached to whichever of Token, BasicAuth and
\* LegacyAuth wins, and ClientCertOnly is returned exactly when a certificate
\* is resolved and none of those three mechanisms is satisfied.
C8_CertAttachedToWinner ==
    loaded => \A u \in QueryUrls :
        LET c == credentials_for(config, u)
            primary == \/ has(u, AUTH_TOKEN_SUFFIX)
                       \/ basic_satisfied(u)
                       \/ legacy_satisfied(u)
        IN  /\ variant_of(c) \in {"Token", "BasicAuth", "LegacyAuth"} =>
                   c[1].cert = resolved_cert(u)
            /\ variant_of(c) = "ClientCertOnly" <=> (resolved_cert(u) # None /\ ~primary)
            /\ variant_of(c) = "ClientCertOnly" => c[1].cert = resolved_cert(u)

\* C8 witness: username, a decodable _password, certfile and keyfile are set,
\* the home directory is known, and BasicAuth carries the certificate with the
\* tilde of its certfile expanded.
C8_Witness ==
    /\ loaded
    /\ home = HOME
    /\ present_suffixes(URL_ROOT) =
           {USERNAME_SUFFIX, PASSWORD_SUFFIX, CERTFILE_SUFFIX, KEYFILE_SUFFIX}
    /\ variant_of(credentials_for(config, URL_ROOT)) = "BasicAuth"
    /\ credentials_for(config, URL_ROOT)[1].cert =
           Some([certfile |-> <<"/", "r", "/", "c">>, keyfile |-> <<"/", "k">>])

Variants == {"Token", "BasicAuth", "LegacyAuth", "ClientCertOnly"}

\* C9: a decode failure inside credential resolution is never surfaced:
\* credentials_for always returns a Credentials or none, never an error; when
\* the chain reaches the BasicAuth step with username present and a _password
\* that does not decode, the step is skipped and a decodable _auth of the same
\* registry yields LegacyAuth.
C9_DecodeFailureAbsorbed ==
    loaded => \A u \in QueryUrls :
        LET c == credentials_for(config, u)
        IN  /\ c = None \/ (Len(c) = 1 /\ c[1].variant \in Variants)
            /\ (/\ ~has(u, AUTH_TOKEN_SUFFIX)
                /\ has(u, USERNAME_SUFFIX)
                /\ password_undecodable(u)
                /\ legacy_satisfied(u)) =>
                   /\ variant_of(c) = "LegacyAuth"
                   /\ c[1].username = <<117>>       \* "u"
                   /\ c[1].password = <<112>>       \* "p"

\* C9 witness: username, a _password that is base64 of a byte that is no
\* UTF-8, and a decodable _auth are set, and LegacyAuth is returned.
C9_Witness ==
    /\ loaded
    /\ has(URL_ROOT, USERNAME_SUFFIX)
    /\ merged(URL_ROOT, PASSWORD_SUFFIX) = Some(<<"/", "w", "=", "=">>)
    /\ BASE64_decode(<<"/", "w", "=", "=">>) = Ok(<<255>>)
    /\ merged(URL_ROOT, AUTH_SUFFIX) = Some(<<"d", "T", "p", "w">>)
    /\ variant_of(credentials_for(config, URL_ROOT)) = "LegacyAuth"

\* C10 as stated: with username set, a _password that does not decode and no
\* _auth key, credentials_for returns no credentials.
C10_Original ==
    loaded => \A u \in QueryUrls :
        (has(u, USERNAME_SUFFIX) /\ password_undecodable(u) /\ ~has(u, AUTH_SUFFIX))
        => credentials_for(config, u) = None

\* C10 amended: with username set, a _password that does not decode and no
\* _auth key, credentials_for returns neither BasicAuth nor LegacyAuth and
\* does not fail; it returns no credentials when, besides, no _authToken is
\* set and certfile and keyfile are not both set.
C10_GarbagePassword ==
    loaded => \A u \in QueryUrls :
        (has(u, USERNAME_SUFFIX) /\ password_undecodable(u) /\ ~has(u, AUTH_SUFFIX))
        => LET c == credentials_for(config, u)
           IN  /\ variant_of(c) \in {"none", "Token", "ClientCertOnly"}
               /\ (/\ ~has(u, AUTH_TOKEN_SUFFIX)
                   /\ ~(has(u, CERTFILE_SUFFIX) /\ has(u, KEYFILE_SUFFIX)))
                  => c = None

\* C10 witness: username and a _password that is not base64 are the only keys
\* of the registry, and the lookup returns no credentials.
C10_Witness ==
    /\ loaded
    /\ present_suffixes(URL_ROOT) = {USERNAME_SUFFIX, PASSWORD_SUFFIX}
    /\ merged(URL_ROOT, PASSWORD_SUFFIX) = Some(<<"c", "A", "=">>)
    /\ ~BASE64_decode(<<"c", "A", "=">>).ok
    /\ credentials_for(config, URL_ROOT) = None

\* the decimal text of the ports the Urls carry
port_digits(p) ==
    IF p = 80 THEN <<"8", "0">>
    ELSE IF p = 443 THEN <<"4", "4", "3">>
    ELSE <<"8", "0", "8", "0">>

\* the Url carries a port that is not the default of its scheme (https: 443,
\* http: 80; the scheme npm has none)
carries_port(u) ==
    /\ u.port # None
    /\ ~(u.scheme = "https" /\ u.port = Some(443))
    /\ ~(u.scheme = "http" /\ u.port = Some(80))

\* d is the parent-directory form of the path p
parent_form(p, d) ==
    IF Len(p) > 0 /\ p[Len(p)] = "/" THEN d = p
    ELSE IF \E i \in 1..Len(p) : p[i] = "/"
    THEN /\ Len(d) \in 1..Len(p)
         /\ d = SubSeq(p, 1, Len(d))
         /\ d[Len(d)] = "/"
         /\ \A i \in (Len(d) + 1)..Len(p) : p[i] # "/"
    ELSE d = <<"/">>

\* C5: nerf_dart(url) is '//', then the host, then ':port' exactly when the
\* URL carries a non-default port, then the parent-directory form of the path;
\* scheme, userinfo, query and fragment do not appear, and the output starts
\* with '//' and ends with '/'.
C5_NerfDartShape ==
    nerfed # None =>
        LET out == nerfed[1]
            head == <<"/", "/">>
                    \o (IF url.host # None THEN url.host[1] ELSE <<>>)
                    \o (IF carries_port(url) THEN <<":">> \o port_digits(url.port[1]) ELSE <<>>)
        IN  /\ Len(out) > Len(head)
            /\ SubSeq(out, 1, Len(head)) = head
            /\ parent_form(url.path, SubSeq(out, Len(head) + 1, Len(out)))
            /\ SubSeq(out, 1, 2) = <<"/", "/">>
            /\ out[Len(out)] = "/"
            /\ \A i \in 1..Len(out) : out[i] \notin {"w", "x", "y", "p", "s", "t", "n", "m"}

\* C5 witness: http://w@h:443/a/b?x/x#y/y, a URL with userinfo, a port that
\* is not its scheme's default, a path not ending in '/', a query and a
\* fragment, has been nerf-darted to //h:443/a/.
C5_Witness ==
    /\ url = Url("http", Some(<<"w">>), HOST_H, Some(443), <<"/", "a", "/", "b">>,
                 Some(<<"x", "/", "x">>), Some(<<"y", "/", "y">>))
    /\ nerfed = Some(<<"/", "/", "h", ":", "4", "4", "3", "/", "a", "/">>)


\* the Credentials value with its secrets blanked: the token, the password
\* and the raw _auth string
without_secrets(c) ==
    IF c.variant = "Token" THEN [c EXCEPT !.token = <<>>]
    ELSE IF c.variant = "BasicAuth" THEN [c EXCEPT !.password = <<>>]
    ELSE IF c.variant = "LegacyAuth" THEN [c EXCEPT !.auth = <<>>, !.password = <<>>]
    ELSE c

\* the number of secret fields of the variant
secret_fields(c) ==
    IF c.variant = "LegacyAuth" THEN 2 ELSE IF c.variant = "ClientCertOnly" THEN 0 ELSE 1

\* C11: the Debug output of a Credentials value does not depend on its
\* secrets: every value of the same variant that differs from it only in token,
\* password or raw _auth string has the same output, the output holds the
\* fixed redaction marker once per secret, and a value that differs in variant,
\* username or certificate paths has another output (they are shown).
C11_DebugRedaction ==
    debug_out # None =>
        /\ \A c2 \in CredentialsValues :
               (without_secrets(c2) = without_secrets(debug_in[1])) <=> (Debug_fmt(c2) = debug_out[1])
        /\ Cardinality({ i \in 1..Len(debug_out[1]) : <<debug_out[1][i]>> = REDACTED })
               = secret_fields(debug_in[1])

\* C11 witness: a BasicAuth with username a" and password p and a certificate
\* has been formatted; the output shows the username escaped and the paths.
C11_Witness ==
    /\ debug_in = Some(BasicAuth(<<"a", "\"">>, <<112>>, Some(ClientCert(<<"/", "c">>, <<"/", "k">>))))
    /\ debug_out = Some(<<"BasicAuth", " { ", "username", ": ",
                          "\"", "a", "\\", "\"", "\"",
                          ", ", "password", ": ", "\"[REDACTED]\"",
                          ", ", "cert", ": ", "Some", "(",
                          "ClientCert", " { ", "certfile", ": ", "\"", "/", "c", "\"",
                          ", ", "keyfile", ": ", "\"", "/", "k", "\"", " }", ")", " }">>)

\* the registry text with the '/' the normalization appends
with_slash(t) == IF Len(t) > 0 /\ t[Len(t)] = "/" THEN t ELSE t \o <<"/">>

\* the text parses as a registry URL
parses(t) == Url_parse(with_slash(t)).ok

\* the normalized form of a registry text that parses
normalized_url(t) == Url_parse(with_slash(t)).val

\* the part of a package name before its first '/'
scope_of(p) == SubSeq(p, 1, first_of(p, {"/"}) - 1)

\* https://registry.npmjs.org/
NPMJS_URL ==
    Url("https", None,
        Some(<<"r", "e", "g", "i", "s", "t", "r", "y", ".", "n", "p", "m", "j", "s", ".", "o", "r", "g">>),
        None, <<"/">>, None, None)

\* C12: registry_for(package): for a name starting with '@' the scope is the
\* part before the first '/' (the whole name without one); if '<scope>:registry'
\* is present in the merged config and parses, its normalized form is returned,
\* otherwise default_registry(); for any other name default_registry() is
\* returned whatever scoped entries the layers hold.
C12_RegistryFor ==
    loaded => \A p \in Packages :
        LET r == registry_for(config, p)
            v == get(config, scope_of(p) \o REGISTRY_SUFFIX)
        IN  IF p[1] = "@" /\ v # None /\ parses(v[1])
            THEN r = normalized_url(v[1])
            ELSE r = default_registry(config)

\* C12 witness: the user layer sets @s:registry = https://g/s and
\* @t:registry, the project layer sets registry = https://h; the packages @s/p
\* and @s get https://g/s/, @t/p/q gets http://g/ and p, s/@s and @u/p get
\* https://h/.
C12_Witness ==
    /\ loaded
    /\ get(config, scope_registry_key(SCOPE_S))
           = Some(<<"h", "t", "t", "p", "s", ":", "/", "/", "g", "/", "s">>)
    /\ get(config, scope_registry_key(SCOPE_T)) # None
    /\ get(config, REGISTRY_KEY) = Some(<<"h", "t", "t", "p", "s", ":", "/", "/", "h">>)
    /\ registry_for(config, <<"@", "s", "/", "p">>)
           = Url("https", None, HOST_G, None, <<"/", "s", "/">>, None, None)
    /\ registry_for(config, <<"@", "s">>) = registry_for(config, <<"@", "s", "/", "p">>)
    /\ registry_for(config, <<"@", "t", "/", "p", "/", "q">>)
           = Url("http", None, HOST_G, None, <<"/">>, None, None)
    /\ registry_for(config, <<"p">>) = URL_ROOT
    /\ registry_for(config, <<"s", "/", "@", "s">>) = URL_ROOT
    /\ registry_for(config, <<"@", "u", "/", "p">>) = URL_ROOT

\* C13: default_registry() returns the normalized URL of get('registry') when
\* that value is present and parses (a '/' appended first when it does not end
\* with one), and https://registry.npmjs.org/ in every other case: the key
\* absent in all layers, or the winning value not parseable.
C13_DefaultRegistry ==
    loaded =>
        LET v == get(config, REGISTRY_KEY)
        IN  IF v # None /\ parses(v[1])
            THEN default_registry(config) = normalized_url(v[1])
            ELSE default_registry(config) = NPMJS_URL

\* C13 witness: the project layer holds registry = h, which is no URL, the
\* user layer holds registry = https://h, and the default is returned.
C13_Witness ==
    /\ loaded
    /\ project_config # None
    /\ user_config # None
    /\ ConfigData_get(project_config[1], REGISTRY_KEY) = Some(<<"h">>)
    /\ ConfigData_get(user_config[1], REGISTRY_KEY)
           = Some(<<"h", "t", "t", "p", "s", ":", "/", "/", "h">>)
    /\ default_registry(config) = NPMJS_URL

ScopeNames == {SCOPE_S, SCOPE_T}

\* the layers whose map holds a parseable value for the scope
parseable_holders(scope) ==
    { l \in holders(scope \o REGISTRY_SUFFIX) :
          parses(layer_of(l)[1].data[scope \o REGISTRY_SUFFIX]) }

top_parseable(scope) ==
    IF "project" \in parseable_holders(scope) THEN "project"
    ELSE IF "user" \in parseable_holders(scope) THEN "user"
    ELSE "global"

\* C14: scoped_registries() holds exactly the scopes for which some present
\* layer has a '<scope>:registry' entry with a parseable value, each with the
\* normalized URL of the highest-priority layer holding a parseable value for
\* it; entries with an unparseable value are skipped.
C14_ScopedRegistries ==
    loaded =>
        LET m == scoped_registries(config)
        IN  /\ DOMAIN m = { scope \in ScopeNames : parseable_holders(scope) # {} }
            /\ \A scope \in DOMAIN m :
                   m[scope] = normalized_url(
                       layer_of(top_parseable(scope))[1].data[scope \o REGISTRY_SUFFIX])

\* C14 witness: @s:registry is https://h in the global layer, https://g/s in
\* the user layer and no URL in the project layer, @t:registry is set in the
\* user layer only; the result holds @s from the user layer and @t.
C14_Witness ==
    /\ loaded
    /\ parseable_holders(SCOPE_S) = {"global", "user"}
    /\ holders(scope_registry_key(SCOPE_S)) = LayerNames
    /\ global_config[1].data[scope_registry_key(SCOPE_S)]
           = <<"h", "t", "t", "p", "s", ":", "/", "/", "h">>
    /\ holders(scope_registry_key(SCOPE_T)) = {"user"}
    /\ scoped_registries(config)
           = [x \in {SCOPE_S, SCOPE_T} |->
                 IF x = SCOPE_S
                 THEN Url("https", None, HOST_G, None, <<"/", "s", "/">>, None, None)
                 ELSE Url("http", None, HOST_G, None, <<"/">>, None, None)]

RECURSIVE split_lines(_)
\* the text cut at every '\n'
split_lines(t) ==
    IF "\n" \notin { t[i] : i \in 1..Len(t) } THEN <<t>>
    ELSE <<SubSeq(t, 1, first_of(t, {"\n"}) - 1)>>
             \o split_lines(SubSeq(t, first_of(t, {"\n"}) + 1, Len(t)))

\* the trimmed text before the first '=' of a line that has one
key_of(l) == trim(SubSeq(l, 1, first_of(l, {"="}) - 1))

\* the trimmed text after the first '=' of a line that has one
value_of(l) == trim(SubSeq(l, first_of(l, {"="}) + 1, Len(l)))

\* the line contributes an entry: it is not blank, its first non-whitespace
\* character is neither '#' nor ';', it holds a '=' and its trimmed key is not
\* empty
accepted(l) ==
    /\ trim(l) # <<>>
    /\ trim(l)[1] \notin {"#", ";"}
    /\ first_of(l, {"="}) <= Len(l)
    /\ key_of(l) # <<>>

\* the positions of the accepted lines of the parsed text
accepted_lines == { i \in 1..Len(split_lines(content)) : accepted(split_lines(content)[i]) }

\* C19: parse_npmrc fails on no text: it returns a map, and the keys of the
\* map are exactly the trimmed keys of the accepted lines, so that blank lines,
\* lines starting (after whitespace) with '#' or ';', lines without '=' and
\* lines with an empty key contribute no entry, while a '#' or ';' later in a
\* line does not end it.
C19_ParserNeverFails ==
    parsed # None =>
        /\ parsed[1].ok
        /\ DOMAIN parsed[1].val = { key_of(split_lines(content)[i]) : i \in accepted_lines }
        /\ \A i \in accepted_lines :
               LET l == split_lines(content)[i]
               IN  (accepted_lines = {i} /\ "$" \notin { l[j] : j \in 1..Len(l) })
                   => parsed[1].val[key_of(l)] = value_of(l)

\* C19 witness: the text ` ;a=b`, newline, `a=b#c` has been parsed: the first
\* line is a comment, the second gives a the value b#c.
C19_Witness ==
    /\ content = <<" ", ";", "a", "=", "b", "\n", "a", "=", "b", "#", "c">>
    /\ parsed = Some(Ok([k \in {<<"a">>} |-> <<"b", "#", "c">>]))

\* C20: the parsed map is what processing the lines in file order gives: every
\* key holds the environment-expanded value of the last accepted line with that
\* key, key and value being the trimmed texts before and after the first '='
\* of the line.
C20_LastLineWins ==
    parsed # None =>
        LET ls == split_lines(content)
            keys == { key_of(ls[i]) : i \in accepted_lines }
            last(k) == CHOOSE i \in accepted_lines :
                           /\ key_of(ls[i]) = k
                           /\ \A j \in accepted_lines : key_of(ls[j]) = k => j <= i
        IN  parsed[1].val = [k \in keys |-> expand_env_vars(value_of(ls[last(k)]))]

\* C20 witness: the text `a=`, newline, `a=b=c`, carriage return, has been
\* parsed with V set: the second line overwrites the first and keeps its
\* second '='.
C20_Witness ==
    /\ content = <<"a", "=", "\n", "a", "=", "b", "=", "c", "\r">>
    /\ env # ENV_EMPTY
    /\ parsed = Some(Ok([k \in {<<"a">>} |-> <<"b", "=", "c">>]))

-----------------------------------------------------------------------------
(* The three-tier load and the single-file load on a machine *)

\* load_with_options has returned, with a config or with an error
three_tier_over == call.entry = "load_with_options" /\ pc \in {"done", "failed"}

\* the layer is not skipped and load_with_options has a path for it
tried(l) == ~skip(l) /\ layer_path(l) # None

\* the state of the layer's config file
file_of(l) == files[layer_path(l)[1]]

\* the layer's config file is on the machine, readable or not
on_disk(l) == layer_path(l) # None /\ file_of(l).kind # "absent"

\* the layers loaded before l
before(l) == IF l = "global" THEN {} ELSE IF l = "user" THEN {"global"} ELSE {"global", "user"}

\* the layers looked up before l
above(l) == IF l = "project" THEN {} ELSE IF l = "user" THEN {"project"} ELSE {"project", "user"}

\* an I/O failure other than `not found` waits on the layer's config file
io_failure(l) == tried(l) /\ file_of(l).kind \in {"hidden", "unreadable"}

\* C15, as stated: after a successful three-tier load a layer is present
\* exactly when its skip flag is unset and its config file exists; an empty
\* file gives a present layer with an empty map, a missing file gives an
\* absent layer and no error, and get still reaches the values of the layers
\* beneath a missing one.
C15_Original ==
    (call.entry = "load_with_options" /\ pc = "done") =>
        /\ error = None
        /\ \A l \in LayerNames :
              /\ (layer_of(l) # None) <=> (~skip(l) /\ on_disk(l))
              /\ (tried(l) /\ file_of(l) = File(<<>>)) =>
                     layer_of(l) = Some([source |-> layer_path(l)[1], data |-> EmptyMap])
              /\ (tried(l) /\ file_of(l) = ABSENT) => layer_of(l) = None
              /\ (/\ tried(l)
                  /\ file_of(l).kind = "file"
                  /\ file_of(l).text # <<>>
                  /\ \A m \in above(l) : ~(~skip(m) /\ on_disk(m))) =>
                     get(config, KEY_K) = Some(<<file_of(l).text[3]>>)

\* C17, as stated: in a three-tier load a missing file gives an absent layer
\* and no error, and any other I/O failure on the config file of a layer that
\* is not skipped fails the whole load with a ReadFile error that carries the
\* cause and the path of the first such file.
C17_Original ==
    three_tier_over =>
        IF \A l \in LayerNames : ~io_failure(l)
        THEN /\ pc = "done"
             /\ error = None
             /\ \A l \in LayerNames : (tried(l) /\ file_of(l) = ABSENT) => layer_of(l) = None
        ELSE /\ pc = "failed"
             /\ \E l \in LayerNames :
                   /\ io_failure(l)
                   /\ \A m \in before(l) : ~io_failure(m)
                   /\ error = Some(ReadFile(layer_path(l)[1], "PermissionDenied"))

\* load_from_file has returned, with a config or with an error
single_file_over == call.entry = "load_from_file" /\ pc \in {"done", "failed"}

\* the config whose project layer is the parsed file, and nothing else
only_project(p) ==
    NpmrcConfig(None, None, Some([source |-> p, data |-> parse_npmrc(files[p].text).val]))

-----------------------------------------------------------------------------
(* The loaded config as a read-only value *)

\* C18, as stated: once a load has completed, whatever happens afterwards to
\* the config files, the environment variables and the home directory, get,
\* default_registry, registry_for, scoped_registries and credentials_for on
\* the loaded config answer what they answered right after the load.
C18_Original == answers # None => answers_now = answers[1]

-----------------------------------------------------------------------------
(* Environment expansion, reference by reference *)

\* the characters that cannot be part of a NAME
NAME_BREAKERS == {"$", "{", "}", "?"}

\* the last index of the NAME of a reference that ends at index j
name_end(v, j) == IF v[j - 1] = "?" THEN j - 2 ELSE j - 1

\* a well-formed `${NAME}` or `${NAME?}` occupies the indices i..j of v
reference(v, i, j) ==
    /\ i + 3 <= j
    /\ j <= Len(v)
    /\ v[i] = "$"
    /\ v[i + 1] = "{"
    /\ v[j] = "}"
    /\ name_end(v, j) >= i + 2
    /\ \A k \in (i + 2)..name_end(v, j) : v[k] \notin NAME_BREAKERS

references(v) == { r \in (1..Len(v)) \X (1..Len(v)) : reference(v, r[1], r[2]) }

name_of(v, r) == SubSeq(v, r[1] + 2, name_end(v, r[2]))

optional(v, r) == v[r[2] - 1] = "?"

\* the number of backslashes immediately before index i
run_before(v, i) ==
    IF \E k \in 1..(i - 1) : v[k] # "\\"
    THEN i - 1 - (CHOOSE k \in 1..(i - 1) : v[k] # "\\" /\ \A m \in (k + 1)..(i - 1) : v[m] = "\\")
    ELSE i - 1

\* what comes before the run of a reference, and what comes after the reference
before_run(v, r) == SubSeq(v, 1, r[1] - run_before(v, r[1]) - 1)

after_reference(v, r) == SubSeq(v, r[2] + 1, Len(v))

is_first(v, r) == \A q \in references(v) : r[1] <= q[1]

is_last(v, r) == \A q \in references(v) : q[1] <= r[1]

\* the output holds `repl` where the reference and its run stood: right after
\* the text before the first reference, right before the text after the last
stands_for(out, v, r, repl) ==
    /\ is_first(v, r) => starts_with(out, before_run(v, r) \o repl)
    /\ is_last(v, r) => ends_with(out, repl \o after_reference(v, r))
    /\ (is_first(v, r) /\ is_last(v, r)) => out = before_run(v, r) \o repl \o after_reference(v, r)

\* C21: a reference preceded by an odd number n of backslashes is escaped,
\* set or not: run and reference are replaced by n div 2 backslashes and the
\* reference as written, modifier included.
C21_OddRunEscapes ==
    parsed # None =>
        \A r \in references(content) :
            run_before(content, r[1]) % 2 = 1 =>
                stands_for(parsed[1], content, r,
                           backslashes(run_before(content, r[1]) \div 2)
                               \o SubSeq(content, r[1], r[2]))

\* V is x and \\\${V?} has been expanded to \${V?}
C21_Witness ==
    /\ ENV_V \in DOMAIN env
    /\ env[ENV_V] = <<"x">>
    /\ content = backslashes(3) \o REF_V_OPTIONAL
    /\ parsed = Some(<<"\\">> \o REF_V_OPTIONAL)

\* what a live reference to `name` stands for, given whether the name counts as set
live_value(name, is_set, is_optional) ==
    IF is_set THEN env[name]
    ELSE IF is_optional THEN <<>>
    ELSE <<"$", "{">> \o name \o <<"}">>

\* the variable is set, to whatever bytes
set(name) == name \in DOMAIN env

\* the variable is set to valid Unicode
set_to_text(name) == name \in DOMAIN env /\ \A i \in 1..Len(env[name]) : env[name][i] # INVALID_BYTE

contains(s, t) == \E i \in 0..(Len(s) - Len(t)) : SubSeq(s, i + 1, i + Len(t)) = t

\* the names that are set to a value holding a reference to a name that is set
referring ==
    { n \in DOMAIN env :
          \E r \in references(env[n]) : name_of(env[n], r) \in DOMAIN env }

\* C23: expansion is not recursive: where a live reference names a variable
\* whose value holds ${OTHER} with OTHER set, the output holds that value
\* verbatim, and the value of OTHER appears nowhere in it.
C23_NotRecursive ==
    parsed # None =>
        \A r \in references(content) :
            (run_before(content, r[1]) % 2 = 0 /\ name_of(content, r) \in referring) =>
                /\ stands_for(parsed[1], content, r,
                              backslashes(run_before(content, r[1]) \div 2)
                                  \o env[name_of(content, r)])
                /\ contains(parsed[1], env[name_of(content, r)])
                /\ \A other \in DOMAIN env :
                       other \notin referring => ~contains(parsed[1], env[other])

\* V is ${U}, U is z, and ${V} has been expanded to ${U}
C23_Witness ==
    /\ ENV_U \in DOMAIN env
    /\ env[ENV_U] = <<"z">>
    /\ env[ENV_V] = <<"$", "{", "U", "}">>
    /\ content = REF_V
    /\ parsed = Some(<<"$", "{", "U", "}">>)

\* C24: a value without any well-formed ${NAME} or ${NAME?} comes back
\* unchanged, whatever is set: plain text, `$` without `{`, an unterminated
\* ${NAME, an empty ${}.
C24_NoReferenceUnchanged ==
    (parsed # None /\ references(content) = {}) => parsed[1] = content

\* V is x and the unterminated ${V? came back as it was
C24_Witness ==
    /\ ENV_V \in DOMAIN env
    /\ env[ENV_V] = <<"x">>
    /\ content = <<"$", "{", "V", "?">>
    /\ parsed = Some(content)

-----------------------------------------------------------------------------
(* Legacy auth *)

\* C25: for every username without ':' and every password, decoding
\* base64(username + ':' + password) gives back exactly that username and
\* that password, colons of the password included.
C25_LegacyRoundTrip ==
    parsed # None =>
        \A u \in Usernames, p \in Passwords :
            content = legacy_auth(u, p) => parsed[1] = Ok([username |-> u, password |-> p])

\* base64 of u, ':', the euro sign, ':' has been decoded to u and euro sign, ':'
C25_Witness ==
    /\ content = <<"d", "T", "r", "i", "g", "q", "w", "6">>
    /\ parsed = Some(Ok([username |-> <<117>>, password |-> <<8364, COLON>>]))

\* the `_auth` value decodes from base64 to UTF-8 text that holds a ':'
username_password_form(auth) ==
    /\ BASE64_decode(auth).ok
    /\ from_utf8(BASE64_decode(auth).val).ok
    /\ find(from_utf8(BASE64_decode(auth).val).val, COLON) # None

\* the text before the first ':' and the text after it
split_first_colon(auth) ==
    LET d == from_utf8(BASE64_decode(auth).val).val
    IN  [username |-> SubSeq(d, 1, find(d, COLON)[1] - 1),
         password |-> SubSeq(d, find(d, COLON)[1] + 1, Len(d))]

\* C26, as stated: credentials_for gives LegacyAuth only for an `_auth` value
\* that decodes to UTF-8 text holding a ':', with the username before the
\* first ':' and the password after it; any other `_auth` value counts as no
\* mechanism at all.
C26_Original ==
    loaded =>
        LET c == credentials_for(config, URL_ROOT)
            auth == merged(URL_ROOT, AUTH_SUFFIX)
        IN  /\ variant_of(c) = "LegacyAuth" =>
                   /\ auth # None
                   /\ username_password_form(auth[1])
                   /\ c[1].auth = auth[1]
                   /\ c[1].username = split_first_colon(auth[1]).username
                   /\ c[1].password = split_first_colon(auth[1]).password
            /\ (auth # None /\ ~username_password_form(auth[1])) =>
                   c = credentials_for([global_config |-> None, user_config |-> None,
                                        project_config |-> None], URL_ROOT)
                   \/ variant_of(c) = "Token"

-----------------------------------------------------------------------------
(* registry_for against scoped_registries *)

\* C27, as stated: for every scope that is a key of scoped_registries(),
\* registry_for(scope/pkg) is the URL scoped_registries() holds for it, also
\* when the layers disagree on the scope and the value of a higher layer is
\* not a URL.
C27_Original ==
    loaded =>
        \A scope \in DOMAIN scoped_registries(config) :
            registry_for(config, scope \o <<"/", "p", "k", "g">>) = scoped_registries(config)[scope]

-----------------------------------------------------------------------------
(* Mechanism priority over the merged view *)

\* the keys the layers hold
held_keys ==
    UNION { IF layer_of(l) # None THEN DOMAIN layer_of(l)[1].data ELSE {} : l \in LayerNames }

\* the config of one layer that holds, for every key, what get answers
merged_view ==
    [global_config |-> None, user_config |-> None,
     project_config |-> Some([source |-> <<>>, data |-> [k \in held_keys |-> get(config, k)[1]]])]

\* the layer alone holds the key of the suffix
only_in(l, suffix) == holders(NERF_H \o suffix) = {l}

\* C28: the mechanism priority is applied to the merged per-key view: the
\* credentials are those of the merged map, a token of the global layer alone
\* beats username/_password and _auth of the project layer, and BasicAuth and
\* the certificate take each of their two keys from whichever layer holds it.
C28_MergedPriority ==
    loaded =>
        LET c == credentials_for(config, URL_ROOT)
        IN  /\ c = credentials_for(merged_view, URL_ROOT)
            /\ only_in("global", AUTH_TOKEN_SUFFIX) =>
                   variant_of(c) = "Token" /\ c[1].token = <<"t">>
            /\ \A a \in LayerNames, b \in LayerNames :
                   (/\ holders(NERF_H \o AUTH_TOKEN_SUFFIX) = {}
                    /\ only_in(a, USERNAME_SUFFIX)
                    /\ only_in(b, PASSWORD_SUFFIX)) =>
                       /\ variant_of(c) = "BasicAuth"
                       /\ c[1].username = <<"u">>
                       /\ c[1].password = <<112>>
            /\ \A a \in LayerNames, b \in LayerNames :
                   (only_in(a, CERTFILE_SUFFIX) /\ only_in(b, KEYFILE_SUFFIX)) =>
                       /\ c # None
                       /\ c[1].cert = Some(ClientCert(<<"/", "c">>, <<"/", "k">>))

\* the token is in the global file only, the project file holds username,
\* _password and _auth, and the answer is the token
C28_Witness ==
    /\ loaded
    /\ only_in("global", AUTH_TOKEN_SUFFIX)
    /\ only_in("project", USERNAME_SUFFIX)
    /\ only_in("project", PASSWORD_SUFFIX)
    /\ only_in("project", AUTH_SUFFIX)
    /\ variant_of(credentials_for(config, URL_ROOT)) = "Token"

-----------------------------------------------------------------------------
(* paths.rs: find_local_prefix, on a machine whose directories form one    *)
(* chain /, /a, /a/a, ... and whose process has a current directory.       *)

PACKAGE_JSON == <<"p", "a", "c", "k", "a", "g", "e", ".", "j", "s", "o", "n">>

NODE_MODULES == <<"n", "o", "d", "e", "_", "m", "o", "d", "u", "l", "e", "s">>

\* Path::join(name), for a relative name
Path_join(p, name) ==
    IF p = <<>> THEN name
    ELSE IF p[Len(p)] = "/" THEN p \o name
    ELSE p \o <<"/">> \o name

RECURSIVE trim_separators(_)
\* a path without its trailing separators (the root keeps its own)
trim_separators(p) ==
    IF Len(p) > 1 /\ p[Len(p)] = "/" THEN trim_separators(SubSeq(p, 1, Len(p) - 1)) ELSE p

\* Path::parent: the path without its last component; None for the root and
\* for the empty path (the paths here have no `.` after their first component)
Path_parent(p) ==
    LET q == trim_separators(p)
        i == rfind(q, "/")
    IN  IF q = <<>> \/ q = <<"/">> THEN None
        ELSE IF i = None THEN Some(<<>>)
        ELSE IF i[1] = 1 THEN Some(<<"/">>)
        ELSE Some(trim_separators(SubSeq(q, 1, i[1] - 1)))

RECURSIVE components_from(_, _)
\* Path::components, the names only: the separators and `.` name nothing
components_from(p, name) ==
    LET named == IF name \in { <<>>, <<".">> } THEN <<>> ELSE <<name>>
    IN  IF p = <<>> THEN named
        ELSE IF Head(p) = "/" THEN named \o components_from(Tail(p), <<>>)
        ELSE components_from(Tail(p), Append(name, Head(p)))

\* the names from the root down to the file or directory the operating system
\* finds under a path: a relative path starts at the current directory
resolve(p) ==
    IF p # <<>> /\ p[1] = "/" THEN components_from(p, <<>>)
    ELSE components_from(current_dir, <<>>) \o components_from(p, <<>>)

\* what the operating system finds under a path: "file", "dir" or "absent"
fs_kind(p) ==
    LET names == resolve(p)
        dir == SubSeq(names, 1, Len(names) - 1)
    IN  IF names = <<>> THEN "dir"
        ELSE IF dir \notin DOMAIN tree THEN "absent"
        ELSE IF names[Len(names)] = PACKAGE_JSON THEN tree[dir].package_json
        ELSE IF names[Len(names)] = NODE_MODULES THEN tree[dir].node_modules
        ELSE IF names \in DOMAIN tree THEN "dir"
        ELSE "absent"

\* Path::is_file
Path_is_file(p) == fs_kind(p) = "file"

\* Path::is_dir
Path_is_dir(p) == fs_kind(p) = "dir"

RECURSIVE find_local_prefix_loop(_, _)
\* paths.rs: the loop of find_local_prefix, at `current`
find_local_prefix_loop(current, start) ==
    IF Path_is_file(Path_join(current, PACKAGE_JSON)) THEN current
    ELSE IF Path_is_dir(Path_join(current, NODE_MODULES)) THEN current
    ELSE IF /\ Path_parent(current) # None
            /\ components_from(Path_parent(current)[1], <<>>) # components_from(current, <<>>)
         THEN find_local_prefix_loop(Path_parent(current)[1], start)
    ELSE start

\* paths.rs: find_local_prefix(cwd)
find_local_prefix(start) == find_local_prefix_loop(start, start)

\* the scenario: the deepest directory, the directories, what one holds, the
\* directories a process can be in and the paths that can be handed over
MaxDepth == 2

RECURSIVE nested(_)
\* a/a/.../a, n names deep
nested(n) == IF n = 0 THEN <<>> ELSE Path_join(nested(n - 1), <<"a">>)

Directories == { components_from(nested(n), <<>>) : n \in 0..MaxDepth }

Holdings ==
    { [package_json |-> "absent", node_modules |-> "absent"],
      [package_json |-> "file", node_modules |-> "absent"],
      [package_json |-> "dir", node_modules |-> "absent"],
      [package_json |-> "absent", node_modules |-> "dir"],
      [package_json |-> "absent", node_modules |-> "file"] }

CurrentDirs == { <<"/">> \o nested(n) : n \in 0..MaxDepth }

StartDirs ==
    CurrentDirs
        \cup { <<"/">> \o nested(n) \o <<"/">> : n \in 1..MaxDepth }
        \cup { nested(n) : n \in 1..MaxDepth }
        \cup { <<".">> }
        \cup { <<".", "/">> \o nested(n) : n \in 1..MaxDepth }

InitPrefix ==
    /\ global_config = None
    /\ user_config = None
    /\ project_config = None
    /\ pc = "done"
    /\ home = None
    /\ url = NoUrl
    /\ nerfed = None
    /\ debug_idle
    /\ env = ENV_EMPTY
    /\ parse_idle
    /\ load_idle
    /\ current_dir \in CurrentDirs
    /\ tree \in [Directories -> Holdings]
    /\ cwd \in { p \in StartDirs : resolve(p) \in Directories }
    /\ local_prefix = None

\* find_local_prefix(&cwd)
call_find_local_prefix ==
    /\ cwd # <<>>
    /\ local_prefix = None
    /\ local_prefix' = Some(find_local_prefix(cwd))
    /\ UNCHANGED <<global_config, user_config, project_config, pc, home, url, nerfed,
                   debug_vars, env, parse_vars, load_vars, current_dir, tree, cwd>>

NextPrefix == call_find_local_prefix

SpecPrefix == InitPrefix /\ [][NextPrefix]_vars

-----------------------------------------------------------------------------
(* The scheme of a URL *)

\* the URL that differs from u in its scheme only
with_scheme(u, scheme) == [u EXCEPT !.scheme = scheme]

\* the written port is the default port of the scheme
default_for(u, scheme) == u.port # None /\ u.port = default_port(scheme)

\* C29, as stated: two URLs that differ only in their scheme have the same
\* nerf_dart and get the same credentials from the same config.
C29_Original ==
    nerfed # None =>
        \A scheme \in {"https", "http", "npm"} :
            with_scheme(url, scheme) \in Urls =>
                /\ nerf_dart(with_scheme(url, scheme)) = nerfed[1]
                /\ credentials_for(config, with_scheme(url, scheme)) = credentials_for(config, url)

\* C29, amended: two URLs that differ only in their scheme have the same
\* nerf_dart, and get the same credentials, exactly when the port they write
\* is the default port of both schemes or of neither (or no port is written);
\* when it is the default of one scheme only, that URL loses the port and the
\* other keeps it.
C29_SchemeAndDefaultPort ==
    nerfed # None =>
        \A scheme \in {"https", "http", "npm"} :
            LET other == with_scheme(url, scheme)
            IN  other \in Urls =>
                    /\ (default_for(url, url.scheme) <=> default_for(url, scheme)) <=>
                           nerf_dart(other) = nerfed[1]
                    /\ nerf_dart(other) = nerfed[1] =>
                           credentials_for(config, other) = credentials_for(config, url)

\* http://h:443/a has been nerf-darted to //h:443/ and gets the token s, while
\* https://h:443/a is nerf-darted to //h/ and gets the token t
C29_Witness ==
    /\ url = Url("http", None, HOST_H, Some(443), <<"/", "a">>, None, None)
    /\ nerfed = Some(<<"/", "/", "h", ":", "4", "4", "3", "/">>)
    /\ nerf_dart(with_scheme(url, "https")) = NERF_H
    /\ credentials_for(config, url) = Some(Token(<<"s">>, None))
    /\ credentials_for(config, with_scheme(url, "https")) = Some(Token(<<"t">>, None))

-----------------------------------------------------------------------------
(* The local prefix *)

\* a directory holds a package.json file or a node_modules directory
qualifies(dir) == tree[dir].package_json = "file" \/ tree[dir].node_modules = "dir"

\* the directories from the root down to the start directory
chain == { SubSeq(resolve(cwd), 1, n) : n \in 0..Len(resolve(cwd)) }

\* the nearest directory of the chain that qualifies
nearest ==
    CHOOSE dir \in chain : qualifies(dir) /\ \A d \in chain : qualifies(d) => Len(d) <= Len(dir)

\* C30, as stated: find_local_prefix(start_dir) returns the nearest directory
\* on the chain start_dir, parent, ..., filesystem root that holds a
\* package.json file or a node_modules directory, and start_dir unchanged
\* when no directory of the chain does.
C30_Original ==
    local_prefix # None =>
        IF \E dir \in chain : qualifies(dir)
        THEN resolve(local_prefix[1]) = nearest
        ELSE local_prefix[1] = cwd

=============================================================================
